---- MODULE Spec2Model ----
(***************************************************************************)
(* Model of the plan sequencer of the adapter's coordinator                *)
(* (src/adapter/src/coord/sequencer.rs): Coordinator::sequence_plan with   *)
(* its authorization gate and its dispatcher, the continuations a context  *)
(* is handed to, and the diff accounting of insert_constant / send_diffs.  *)
(***************************************************************************)
EXTENDS Integers, Sequences, FiniteSets, TLC

VARIABLES
    txn,                  \* session.transaction(): the TransactionStatus variant
    txn_ops,              \* the session's buffered TransactionOps
    prepared,             \* names of the session's prepared statements
    portals,              \* names of the session's portals
    session_vars_set,     \* a session variable differs from its default
    temp_items,           \* the connection owns temporary catalog items
    transient_id_counter, \* Coordinator::transient_id_counter
    catalog_rev,          \* catalog transactions applied so far
    internal_cmd_tx,      \* the coordinator's internal message queue
    notices,              \* notices added to the session by the statement in flight
    ctx,                  \* the ExecuteContext of the statement in flight
    crashed,              \* the coordinator panicked
    nstmt,                \* statements received so far
    dplan,                \* send_diffs / insert_constant: the call's input
    dout,                 \* send_diffs / insert_constant: the call's outcome
    sst,                  \* the single-statement implicit-transaction protocol in flight
    coord,                \* who runs on the coordinator besides this session, and whether it is gone
    allocated,            \* the transient ids allocate_transient_id has returned
    relation,             \* the writes applied to the relations, in the order applied
    differential_demux,   \* the differential logging demux: its DemuxState and what it has output
    timely_demux          \* the timely logging demux: its maps and what it has output

vars == <<txn, txn_ops, prepared, portals, session_vars_set, temp_items,
          transient_id_counter, catalog_rev, internal_cmd_tx, notices, ctx,
          crashed,
          nstmt, dplan, dout, sst, coord, allocated, relation, differential_demux,
                   timely_demux>>

(***************************************************************************)
(* Bounds of the model.                                                    *)
(***************************************************************************)
MaxStmts == 2
MaxNames == 2
MaxRows == 3

Names == 1..MaxNames

(* Stand-in for u64::MAX, the value at which allocate_transient_id bails. *)
MaxId == 4
\* Sessions besides the one served, and the catalog transactions they make.
MaxOthers == 2
MaxRev == 3
\* The differential logging demux: operators, the largest share count and
\* diff, and the TraceShare events handled.
MaxOperators == 2
MaxShare == 2
MaxTraceShares == 5
\* The timely logging demux: the workers, the dataflows and the channels of
\* each, the latest event time, the messages counted per channel and peer,
\* the activations recorded per operator, and the range of address hashes.
Peers == 2
MaxDataflows == 1
MaxChannels == 2
MaxTime == 2
MaxMessages == 1
MaxSchedules == 1
HashSpace == 4

(***************************************************************************)
(* Plan kinds: one per arm of the match in sequence_plan.                  *)
(***************************************************************************)

(* Arms of the form `let result = self.sequence_x(..).await; ctx.retire(result)`
   whose handler runs a catalog transaction. *)
CatalogKinds ==
    {"CreateSources", "CreateDatabase", "CreateSchema", "CreateRole",
     "CreateCluster", "CreateClusterProfile", "CreateClusterReplica",
     "CreateTable", "CreateSecret", "CreateView", "CreateMaterializedView",
     "CreateIndex", "CreateType", "DropObjects", "DropOwned",
     "AlterCluster", "AlterClusterProfile", "AlterClusterRename",
     "AlterClusterItemRename", "AlterSetCluster", "AlterItemRename",
     "AlterIndexSetOptions", "AlterIndexResetOptions", "AlterRole",
     "AlterSecret", "AlterSink", "PurifiedAlterSource", "AlterSystemSet",
     "AlterSystemReset", "AlterSystemResetAll", "RotateKeys",
     "GrantPrivileges", "RevokePrivileges", "AlterDefaultPrivileges",
     "GrantRole", "RevokeRole", "AlterOwner", "ReassignOwned"}

(* Arms of the same form whose handler reads or changes the session only. *)
SessionKinds ==
    {"ShowAllVariables", "ShowVariable", "InspectShard", "SetVariable",
     "ResetVariable", "SetTransaction", "Subscribe", "SideEffectingFunc"}

(* Arms that move the context into a routine that retires it itself. *)
RoutineKinds ==
    {"CreateConnection", "CreateSink", "CommitTransaction", "AbortTransaction",
     "Select", "ShowColumns", "ExplainPlan", "ExplainTimestamp", "Insert",
     "ReadThenWrite", "Declare"}

(* Arms written out in sequence_plan itself. *)
InlineKinds ==
    {"CreateSource", "EmptyQuery", "StartTransaction", "ShowCreate", "CopyFrom",
     "AlterNoop", "AlterSource", "DiscardTemp", "DiscardAll", "Fetch", "Close",
     "Prepare", "Execute", "Deallocate", "Raise", "ValidateConnection"}

PlanKinds == CatalogKinds \cup SessionKinds \cup RoutineKinds \cup InlineKinds

(* Kinds whose plan carries a name. *)
NamedKinds == {"Close", "Prepare", "Execute", "Deallocate"}

TxnStates == {"Default", "Started", "InTransaction", "InTransactionImplicit", "Failed"}

Ok(v) == [ok |-> TRUE, val |-> v]
Err(e) == [ok |-> FALSE, val |-> e]

(* An error that carries a name, such as AdapterError::UnknownCursor(name). *)
NamedErr(e, name) == Err(e \o ":" \o ToString(name))

(* No statement in flight.  kind, name, implicit: the plan.  handoff: the
   continuation holding the context.  sent: the results delivered to the
   client.  steps, failed_check, raised, dispatched, calls: what the last
   sequence_plan did (the gate steps it ran, the first check that answered
   with an error, the errors that arose, whether the match was entered, the
   calls its arm made on the session and the coordinator, in order).
   allowed: the response kinds set_allowed declared, empty while none are. *)
NoCtx ==
    [kind |-> "none", name |-> 0, implicit |-> FALSE, handoff |-> "none",
     sent |-> <<>>, steps |-> <<>>, failed_check |-> "none",
     raised |-> {}, dispatched |-> FALSE, calls |-> <<>>, allowed |-> {}]

(* No single-statement protocol in flight.  pc: where the protocol stands.
   result: the inner statement's result.  commit: the synthetic commit's
   result.  posted, processed: the Command::Commit messages the task posted
   and the coordinator processed. *)
NoSst ==
    [pc |-> "none", result |-> Ok("none"), commit |-> Ok("none"),
     posted |-> 0, processed |-> 0]

(* Nothing else runs on the coordinator, and the coordinator is there. *)
NoCoord == [busy |-> {}, gone |-> FALSE]

(***************************************************************************)
(* Rows and diffs.  A row is a sequence of datums; datum 0 is NULL.  Row   *)
(* order is the lexicographic order of the datums.                         *)
(***************************************************************************)
NULL == 0

RECURSIVE RowKey(_)
RowKey(row) ==
    IF row = <<>> THEN 0 ELSE 3 * RowKey(SubSeq(row, 1, Len(row) - 1)) + row[Len(row)]

RowLess(a, b) == RowKey(a) < RowKey(b)

Abs(d) == IF d < 0 THEN -d ELSE d

RECURSIVE SumDiffs(_)
SumDiffs(updates) ==
    IF updates = <<>> THEN 0 ELSE updates[1][2] + SumDiffs(Tail(updates))

RECURSIVE SumAbsDiffs(_)
SumAbsDiffs(updates) ==
    IF updates = <<>> THEN 0 ELSE Abs(updates[1][2]) + SumAbsDiffs(Tail(updates))

(* The rows of a set in ascending order. *)
RECURSIVE SortRows(_)
SortRows(S) ==
    IF S = {} THEN <<>>
    ELSE LET m == CHOOSE r \in S : \A q \in S : q = r \/ RowLess(r, q)
         IN <<m>> \o SortRows(S \ {m})

(* The sum of the diffs of the updates of one row. *)
RECURSIVE DiffOf(_, _)
DiffOf(row, updates) ==
    IF updates = <<>> THEN 0
    ELSE (IF updates[1][1] = row THEN updates[1][2] ELSE 0) + DiffOf(row, Tail(updates))

RECURSIVE DropZero(_)
DropZero(updates) ==
    IF updates = <<>> THEN <<>>
    ELSE (IF updates[1][2] = 0 THEN <<>> ELSE <<updates[1]>>) \o DropZero(Tail(updates))

(* differential_dataflow::consolidation::consolidate: sort by row, sum the
   diffs of equal rows, drop the rows whose diffs sum to zero. *)
Consolidate(updates) ==
    LET rows == SortRows({updates[i][1] : i \in 1..Len(updates)})
    IN DropZero([i \in 1..Len(rows) |-> <<rows[i], DiffOf(rows[i], updates)>>])

(* The first loop of send_diffs: add up the diffs until the first negative one. *)
RECURSIVE ScanDiffs(_, _)
ScanDiffs(updates, acc) ==
    IF updates = <<>> THEN [all_positive_diffs |-> TRUE, affected_rows |-> acc]
    ELSE IF updates[1][2] < 0 THEN [all_positive_diffs |-> FALSE, affected_rows |-> acc]
    ELSE ScanDiffs(Tail(updates), acc + updates[1][2])

(* AffectedRows counting the updates instead of adding up their diffs. *)
AffectedRowsCountsUpdates(updates) ==
    LET scan == ScanDiffs(updates, 0)
    IN IF scan.all_positive_diffs
       THEN [affected_rows |-> Len(updates), updates |-> updates]
       ELSE LET c == Consolidate(updates)
            IN [affected_rows |-> SumAbsDiffs(c), updates |-> c]

(* AffectedRows without the consolidation. *)
AffectedRowsUnconsolidated(updates) ==
    LET scan == ScanDiffs(updates, 0)
    IN IF scan.all_positive_diffs
       THEN [affected_rows |-> scan.affected_rows, updates |-> updates]
       ELSE [affected_rows |-> SumAbsDiffs(updates), updates |-> updates]

(* AffectedRows adding the consolidated count to the sum the first loop
   had reached. *)
AffectedRowsKeepsPartialSum(updates) ==
    LET scan == ScanDiffs(updates, 0)
    IN IF scan.all_positive_diffs
       THEN [affected_rows |-> scan.affected_rows, updates |-> updates]
       ELSE LET c == Consolidate(updates)
            IN [affected_rows |-> scan.affected_rows + SumAbsDiffs(c), updates |-> c]

(* The block computing affected_rows in send_diffs, with plan.updates as
   it is left afterwards. *)
AffectedRows(updates) ==
    LET scan == ScanDiffs(updates, 0)
    IN IF scan.all_positive_diffs
       THEN [affected_rows |-> scan.affected_rows, updates |-> updates]
       ELSE LET c == Consolidate(updates)
            IN [affected_rows |-> SumAbsDiffs(c), updates |-> c]

(***************************************************************************)
(* The session's buffered transaction ops.                                 *)
(***************************************************************************)
NoOps == [type |-> "None", writes |-> <<>>]

(* Session::add_transaction_ops for TransactionOps::Writes: ops of another
   type are rejected, writes are appended. *)
AddTransactionOps(ops, write_op) ==
    IF ops.type \in {"None", "Writes"}
    THEN [ok |-> TRUE, ops |-> [type |-> "Writes", writes |-> Append(ops.writes, write_op)]]
    ELSE [ok |-> FALSE, ops |-> ops]

(* RowSetFinishing::finish with no order, limit or offset and the identity
   projection: every row, repeated by its count, or an error when the rows
   are larger than max_result_size. *)
RECURSIVE ExpandRows(_)
ExpandRows(returning) ==
    IF returning = <<>> THEN <<>>
    ELSE [i \in 1..returning[1][2] |-> returning[1][1]] \o ExpandRows(Tail(returning))

RECURSIVE RowsSize(_)
RowsSize(rows) == IF rows = <<>> THEN 0 ELSE Len(rows[1]) + RowsSize(Tail(rows))

Finish(returning, max_result_size) ==
    LET rows == ExpandRows(returning)
    IN IF RowsSize(rows) > max_result_size
       THEN [ok |-> FALSE, rows |-> <<>>]
       ELSE [ok |-> TRUE, rows |-> rows]

Resp(ok, val, n, rows) == [ok |-> ok, val |-> val, n |-> n, rows |-> rows]

(* No call made yet. *)
NoOut ==
    [called |-> FALSE, result |-> Resp(FALSE, "none", 0, <<>>), affected_rows |-> 0,
     ops_before |-> NoOps]

(* CountResponse with Updated carrying the whole count. *)
CountResponseUpdateWhole(kind, affected_rows) ==
    CASE kind = "Delete" -> Resp(TRUE, "Deleted", affected_rows, <<>>)
      [] kind = "Insert" -> Resp(TRUE, "Inserted", affected_rows, <<>>)
      [] kind = "Update" -> Resp(TRUE, "Updated", affected_rows, <<>>)

(* The response of send_diffs without RETURNING. *)
CountResponse(kind, affected_rows) ==
    CASE kind = "Delete" -> Resp(TRUE, "Deleted", affected_rows, <<>>)
      [] kind = "Insert" -> Resp(TRUE, "Inserted", affected_rows, <<>>)
      [] kind = "Update" -> Resp(TRUE, "Updated", affected_rows \div 2, <<>>)

(* ReturningResponse cutting the rows to the maximum size instead of
   failing. *)
ReturningResponseTruncates(returning, max_result_size) ==
    LET f == Finish(returning, max_result_size)
    IN IF f.ok THEN Resp(TRUE, "SendingRowsImmediate", 0, f.rows)
       ELSE Resp(TRUE, "SendingRowsImmediate", 0,
                 SubSeq(ExpandRows(returning), 1, max_result_size))

(* The RETURNING branch of send_diffs. *)
ReturningResponse(returning, max_result_size) ==
    LET f == Finish(returning, max_result_size)
    IN IF f.ok THEN Resp(TRUE, "SendingRowsImmediate", 0, f.rows)
       ELSE Resp(FALSE, "ResultSize", 0, <<>>)

(* send_diffs binding the WriteOp to another relation than the plan's. *)
SendDiffsBindsOtherId(ops, plan) ==
    LET a == AffectedRows(plan.updates)
        added == AddTransactionOps(ops, [id |-> plan.id + 1, rows |-> a.updates])
        out(o, panic, result) ==
            [ops |-> o, panic |-> panic, result |-> result,
             affected_rows |-> a.affected_rows]
    IN IF a.affected_rows < 0
       THEN out(ops, TRUE, Resp(FALSE, "panic", 0, <<>>))
       ELSE IF ~added.ok
       THEN out(added.ops, FALSE, Resp(FALSE, "TransactionOps", 0, <<>>))
       ELSE IF plan.returning # <<>>
       THEN out(added.ops, FALSE, ReturningResponse(plan.returning, plan.max_result_size))
       ELSE out(added.ops, FALSE, CountResponse(plan.kind, a.affected_rows))

(* Coordinator::send_diffs. *)
SendDiffs(ops, plan) ==
    LET a == AffectedRows(plan.updates)
        added == AddTransactionOps(ops, [id |-> plan.id, rows |-> a.updates])
        out(o, panic, result) ==
            [ops |-> o, panic |-> panic, result |-> result,
             affected_rows |-> a.affected_rows]
    IN IF a.affected_rows < 0
       THEN out(ops, TRUE, Resp(FALSE, "panic", 0, <<>>))
       ELSE IF ~added.ok
       THEN out(added.ops, FALSE, Resp(FALSE, "TransactionOps", 0, <<>>))
       ELSE IF plan.returning # <<>>
       THEN out(added.ops, FALSE, ReturningResponse(plan.returning, plan.max_result_size))
       ELSE out(added.ops, FALSE, CountResponse(plan.kind, a.affected_rows))

(* RelationDesc::constraints_met over a whole row: the first column, if
   any, that holds NULL and is not nullable. *)
ViolatedColumn(nullable, row) ==
    LET bad == {i \in 1..Len(row) : row[i] = NULL /\ ~nullable[i]}
    IN IF bad = {} THEN 0 ELSE CHOOSE i \in bad : \A j \in bad : i <= j

(* FirstViolation looking at the first row only. *)
FirstViolationFirstRowOnly(nullable, rows) ==
    IF rows = <<>> THEN 0 ELSE ViolatedColumn(nullable, rows[1][1])

(* The nested loop of insert_constant: the column of the first violation in
   row-major order, 0 when every datum meets its column's constraints. *)
RECURSIVE FirstViolation(_, _)
FirstViolation(nullable, rows) ==
    IF rows = <<>> THEN 0
    ELSE LET v == ViolatedColumn(nullable, rows[1][1])
         IN IF v # 0 THEN v ELSE FirstViolation(nullable, Tail(rows))

(* Coordinator::insert_constant.  call.pre tells what the catalog lookup,
   the description and the constant yield before the rows are read. *)
InsertConstant(ops, call) ==
    LET fail(e, col) ==
            [ops |-> ops, panic |-> FALSE, result |-> Resp(FALSE, e, col, <<>>),
             affected_rows |-> 0]
    IN CASE call.pre = "unknown_item" -> fail("UnknownItem", 0)
         [] call.pre = "desc_err" -> fail("Catalog", 0)
         [] call.pre = "not_const" ->
                [ops |-> ops, panic |-> TRUE, result |-> Resp(FALSE, "panic", 0, <<>>),
                 affected_rows |-> 0]
         [] call.pre = "eval_err" -> fail("Eval", 0)
         [] OTHER ->
                LET v == FirstViolation(call.nullable, call.updates)
                IN IF v # 0 THEN fail("NotNullViolation", v)
                   ELSE SendDiffs(ops, [id |-> call.id, updates |-> call.updates,
                                        kind |-> "Insert", returning |-> <<>>,
                                        max_result_size |-> call.max_result_size])

(***************************************************************************)
(* The authorization gate of sequence_plan.                                *)
(***************************************************************************)
GateOrder ==
    <<"user_privilege_hack", "check_cluster_restrictions",
      "resolve_target_cluster", "check_plan">>

(* What each step answers for the plan at hand: TRUE for Ok.  A step after
   the first failing check is never asked: its answer is left TRUE. *)
GateAnswers ==
    {o \in [hack : BOOLEAN, restrict : BOOLEAN, resolve : BOOLEAN, rbac : BOOLEAN] :
        /\ ~o.hack => o.restrict /\ o.resolve /\ o.rbac
        /\ ~o.restrict => o.resolve /\ o.rbac}

(* The first check that answers with an error, "none" when all three pass. *)
FirstFailedCheck(o) ==
    IF ~o.hack THEN "user_privilege_hack"
    ELSE IF ~o.restrict THEN "check_cluster_restrictions"
    ELSE IF ~o.rbac THEN "check_plan"
    ELSE "none"

(* AuthGate going on to the RBAC check after a failed cluster-restriction
   check. *)
AuthGateNoShortCircuit(o) ==
    IF ~o.hack
    THEN [steps |-> SubSeq(GateOrder, 1, 1), err |-> "user_privilege_hack",
          raised |-> {"user_privilege_hack"}]
    ELSE LET restricted == IF o.restrict THEN {} ELSE {"check_cluster_restrictions"}
             unresolved == IF o.resolve THEN {} ELSE {"resolve_target_cluster"}
         IN IF ~o.rbac
            THEN [steps |-> GateOrder, err |-> "check_plan",
                  raised |-> restricted \cup unresolved \cup {"check_plan"}]
            ELSE [steps |-> GateOrder, err |-> "none",
                  raised |-> restricted \cup unresolved]

(* The gate: the steps run, the error the context is retired with ("none"
   to go on to the match), and the errors that arose on the way. *)
AuthGate(o) ==
    IF ~o.hack
    THEN [steps |-> SubSeq(GateOrder, 1, 1), err |-> "user_privilege_hack",
          raised |-> {"user_privilege_hack"}]
    ELSE IF ~o.restrict
    THEN [steps |-> SubSeq(GateOrder, 1, 2), err |-> "check_cluster_restrictions",
          raised |-> {"check_cluster_restrictions"}]
    ELSE LET unresolved == IF o.resolve THEN {} ELSE {"resolve_target_cluster"}
         IN IF ~o.rbac
            THEN [steps |-> GateOrder, err |-> "check_plan",
                  raised |-> unresolved \cup {"check_plan"}]
            ELSE [steps |-> GateOrder, err |-> "none", raised |-> unresolved]

(***************************************************************************)
(* The coordinator and session state a handler works on.                   *)
(***************************************************************************)
State ==
    [txn |-> txn, txn_ops |-> txn_ops, prepared |-> prepared, portals |-> portals,
     session_vars_set |-> session_vars_set, temp_items |-> temp_items,
     transient_id_counter |-> transient_id_counter, catalog_rev |-> catalog_rev,
     internal_cmd_tx |-> internal_cmd_tx, notices |-> notices, relation |-> relation]

(* What one run of the match does: the state it leaves, the results it
   retires the context with, the continuation it hands the context to, and
   the errors that arose. *)
Out(st, retire, handoff, raised) ==
    [st |-> st, retire |-> retire, handoff |-> handoff, panic |-> FALSE, raised |-> raised,
     calls |-> <<>>]

Retire(st, result) ==
    Out(st, <<result>>, "none", IF result.ok THEN {} ELSE {result.val})

Panic(st) ==
    [st |-> st, retire |-> <<>>, handoff |-> "none", panic |-> TRUE, raised |-> {"panic"},
     calls |-> <<>>]

(* The inputs of one run of sequence_plan besides the plan: the gate's
   answers, the result of the arm's handler, of the step before it, whether
   resolved_ids is empty, whether RBAC is disabled for the session, and
   whether the plan creates a temporary item. *)
Inputs ==
    [gate : GateAnswers, ok : BOOLEAN, pre_ok : BOOLEAN, resolved_empty : BOOLEAN,
     rbac_off : BOOLEAN, temporary : BOOLEAN]

(* AllocateTransientId without the check: the addition wraps around. *)
AllocateTransientIdWraps(st) ==
    [ok |-> TRUE, id |-> st.transient_id_counter,
     st |-> [st EXCEPT !.transient_id_counter = (@ + 1) % (MaxId + 1)]]

(* AllocateTransientId handing out the counter's value without raising it. *)
AllocateTransientIdNoIncrement(st) ==
    IF st.transient_id_counter = MaxId
    THEN [ok |-> FALSE, id |-> 0, st |-> st]
    ELSE [ok |-> TRUE, id |-> st.transient_id_counter, st |-> st]

(* Coordinator::allocate_transient_id. *)
AllocateTransientId(st) ==
    IF st.transient_id_counter = MaxId
    THEN [ok |-> FALSE, id |-> 0, st |-> st]
    ELSE [ok |-> TRUE, id |-> st.transient_id_counter,
          st |-> [st EXCEPT !.transient_id_counter = @ + 1]]

(* Coordinator::drop_temp_items: a catalog transaction dropping the
   connection's temporary items, if it has any. *)
DropTempItems(st) ==
    IF st.temp_items
    THEN [st EXCEPT !.temp_items = FALSE, !.catalog_rev = @ + 1]
    ELSE st

(* Coordinator::clear_transaction: the session's transaction is taken out. *)
ClearTransaction(st) == [st EXCEPT !.txn = "Default", !.txn_ops = NoOps]

(* Session::reset: the session variables go back to their defaults. *)
SessionReset(st) == [st EXCEPT !.session_vars_set = FALSE]

(* Session::start_transaction. *)
StartTransaction(st) ==
    [st EXCEPT !.txn = IF @ = "Default" THEN "Started"
                       ELSE IF @ = "InTransactionImplicit" THEN "InTransaction"
                       ELSE @]

(* TransactionStatus::is_implicit. *)
IsImplicit(t) == t = "InTransactionImplicit"

AddNotice(st, n) == [st EXCEPT !.notices = Append(@, n)]

(* The handlers in the private module `inner`: Ok after a catalog
   transaction, or an error that leaves the catalog alone. *)
CatalogHandler(st, p, in) ==
    IF in.ok
    THEN [st |-> [st EXCEPT !.catalog_rev = @ + 1,
                            !.temp_items = @ \/ (p.kind \in {"CreateTable", "CreateView"}
                                                 /\ in.temporary)],
          result |-> Ok("handler_ok")]
    ELSE [st |-> st, result |-> Err("handler")]

SessionHandler(st, p, in) ==
    IF in.ok
    THEN [st |-> CASE p.kind = "SetVariable" -> [st EXCEPT !.session_vars_set = TRUE]
                   [] p.kind = "ResetVariable" -> [st EXCEPT !.session_vars_set = FALSE]
                   [] OTHER -> st,
          result |-> Ok("handler_ok")]
    ELSE [st |-> st, result |-> Err("handler")]

(* Coordinator::maybe_send_rbac_notice. *)
MaybeSendRbacNotice(st, in) ==
    IF in.rbac_off THEN AddNotice(st, "RbacDisabled") ELSE st

(* CatalogArm answering Ok whatever the handler returned. *)
CatalogArmSwallowsError(st, p, in) ==
    IF p.kind = "CreateSources" /\ ~in.resolved_empty THEN Panic(st)
    ELSE LET h == CatalogHandler(st, p, in)
         IN Out(h.st, <<Ok("handler_ok")>>, "none",
                IF h.result.ok THEN {} ELSE {h.result.val})

(* Arms `let result = handler; ctx.retire(result)` (lines 124-213, 324-402,
   498-535), CreateSources with its assertion, CreateRole and AlterRole
   with their notice. *)
CatalogArm(st, p, in) ==
    IF p.kind = "CreateSources" /\ ~in.resolved_empty THEN Panic(st)
    ELSE LET h == CatalogHandler(st, p, in)
             st2 == IF p.kind \in {"CreateRole", "AlterRole"} /\ h.result.ok
                    THEN MaybeSendRbacNotice(h.st, in) ELSE h.st
         IN Retire(st2, h.result)

SessionArm(st, p, in) ==
    LET h == SessionHandler(st, p, in) IN Retire(h.st, h.result)

(* Plan::CreateSource: the id allocation, then the handler. *)
CreateSourceArm(st, p, in) ==
    IF ~in.pre_ok THEN Retire(st, Err("allocate_user_id"))
    ELSE LET h == CatalogHandler(st, p, in) IN Retire(h.st, h.result)

(* The plan kinds that end a transaction. *)
EndTransactionKinds == {"CommitTransaction", "AbortTransaction"}

(* The action the CommitTransaction | AbortTransaction arm hands to
   sequence_end_transaction. *)
EndTransactionAction(p) ==
    IF p.kind = "CommitTransaction" THEN "Commit" ELSE "Rollback"

(* A call an arm makes, with the argument that matters. *)
Call(fn, arg) == [fn |-> fn, arg |-> arg]

(* RoutineArm adding the notice whatever the plan's own transaction type. *)
RoutineArmNoticeIgnoresPlanType(st, p, in) ==
    LET st2 == IF p.kind \in EndTransactionKinds /\ IsImplicit(st.txn)
               THEN AddNotice(st, "ExplicitTransactionControlInImplicitTransaction")
               ELSE st
    IN IF p.kind \in EndTransactionKinds
       THEN [Out(st2, <<>>, "routine", {}) EXCEPT
                !.calls = <<Call("sequence_end_transaction", EndTransactionAction(p))>>]
       ELSE Out(st2, <<>>, "routine", {})

(* Arms that move ctx into a routine; CommitTransaction and
   AbortTransaction add their notice first. *)
RoutineArm(st, p, in) ==
    LET st2 == IF p.kind \in EndTransactionKinds
                  /\ IsImplicit(st.txn) /\ ~p.implicit
               THEN AddNotice(st, "ExplicitTransactionControlInImplicitTransaction")
               ELSE st
    IN IF p.kind \in EndTransactionKinds
       THEN [Out(st2, <<>>, "routine", {}) EXCEPT
                !.calls = <<Call("sequence_end_transaction", EndTransactionAction(p))>>]
       ELSE Out(st2, <<>>, "routine", {})

(* StartTransactionArm adding its notice inside any transaction. *)
StartTransactionArmNoticeInAnyTransaction(st, p, in) ==
    LET st2 == IF st.txn # "Default"
               THEN AddNotice(st, "ExistingTransactionInProgress") ELSE st
    IN IF in.ok THEN Retire(StartTransaction(st2), Ok("StartedTransaction"))
       ELSE Retire(st2, Err("start_transaction"))

(* Plan::StartTransaction. *)
StartTransactionArm(st, p, in) ==
    LET st2 == IF st.txn = "InTransaction"
               THEN AddNotice(st, "ExistingTransactionInProgress") ELSE st
    IN IF in.ok THEN Retire(StartTransaction(st2), Ok("StartedTransaction"))
       ELSE Retire(st2, Err("start_transaction"))

(* The effect of a call of the DiscardAll arm. *)
ApplyCall(st, call) ==
    CASE call.fn = "clear_transaction" -> ClearTransaction(st)
      [] call.fn = "drop_temp_items" -> DropTempItems(st)
      [] call.fn = "reset" -> SessionReset(st)

(* The calls made one after the other. *)
RECURSIVE ApplyCalls(_, _)
ApplyCalls(st, calls) ==
    IF calls = <<>> THEN st ELSE ApplyCalls(ApplyCall(st, Head(calls)), Tail(calls))

(* DiscardAllArm forgetting to reset the session variables. *)
DiscardAllArmKeepsVariables(st, p, in) ==
    IF st.txn = "Started"
    THEN LET calls == <<Call("clear_transaction", 0), Call("drop_temp_items", 0)>>
         IN [Retire(ApplyCalls(st, calls), Ok("DiscardedAll")) EXCEPT !.calls = calls]
    ELSE Retire(st, Err("OperationProhibitsTransaction:DISCARD ALL"))

(* DiscardAllArm discarding inside any explicit transaction. *)
DiscardAllArmInAnyTransaction(st, p, in) ==
    IF st.txn \in {"Started", "InTransaction"}
    THEN LET calls == <<Call("clear_transaction", 0), Call("drop_temp_items", 0),
                       Call("reset", 0)>>
         IN [Retire(ApplyCalls(st, calls), Ok("DiscardedAll")) EXCEPT !.calls = calls]
    ELSE Retire(st, Err("OperationProhibitsTransaction:DISCARD ALL"))

(* DiscardAllArm discarding whenever no statement of the transaction can
   still be running. *)
DiscardAllArmAlsoInFailed(st, p, in) ==
    IF st.txn \in {"Started", "Failed"}
    THEN LET calls == <<Call("clear_transaction", 0), Call("drop_temp_items", 0),
                       Call("reset", 0)>>
         IN [Retire(ApplyCalls(st, calls), Ok("DiscardedAll")) EXCEPT !.calls = calls]
    ELSE Retire(st, Err("OperationProhibitsTransaction:DISCARD ALL"))

(* Plan::DiscardAll. *)
DiscardAllArm(st, p, in) ==
    IF st.txn = "Started"
    THEN LET calls == <<Call("clear_transaction", 0), Call("drop_temp_items", 0),
                       Call("reset", 0)>>
         IN [Retire(ApplyCalls(st, calls), Ok("DiscardedAll")) EXCEPT !.calls = calls]
    ELSE Retire(st, Err("OperationProhibitsTransaction:DISCARD ALL"))

(* CloseArm returning without retiring the context of an unknown cursor. *)
CloseArmDropsContext(st, p, in) ==
    IF p.name \in st.portals
    THEN Retire([st EXCEPT !.portals = @ \ {p.name}], Ok("ClosedCursor"))
    ELSE Out(st, <<>>, "none", {"UnknownCursor"})

(* CloseArm closing every portal of the session. *)
CloseArmClosesAll(st, p, in) ==
    IF p.name \in st.portals
    THEN Retire([st EXCEPT !.portals = {}], Ok("ClosedCursor"))
    ELSE Retire(st, NamedErr("UnknownCursor", p.name))

(* Plan::Close. *)
CloseArm(st, p, in) ==
    IF p.name \in st.portals
    THEN Retire([st EXCEPT !.portals = @ \ {p.name}], Ok("ClosedCursor"))
    ELSE Retire(st, NamedErr("UnknownCursor", p.name))

(* PrepareArm replacing the statement registered under the name. *)
PrepareArmOverwrites(st, p, in) ==
    [Retire([st EXCEPT !.prepared = @ \cup {p.name}], Ok("Prepare")) EXCEPT
        !.calls = <<Call("set_prepared_statement", st.catalog_rev)>>]

(* Plan::Prepare; the call's argument is the revision the statement is
   registered with. *)
PrepareArm(st, p, in) ==
    IF p.name \in st.prepared
    THEN Retire(st, NamedErr("PreparedStatementExists", p.name))
    ELSE [Retire([st EXCEPT !.prepared = @ \cup {p.name}], Ok("Prepare")) EXCEPT
             !.calls = <<Call("set_prepared_statement", st.catalog_rev)>>]

(* ExecuteArm retiring the context it has just sent off in the message. *)
ExecuteArmAlsoRetires(st, p, in) ==
    IF p.name \in st.prepared /\ in.ok
    THEN Out([st EXCEPT !.portals = @ \cup {p.name},
                        !.internal_cmd_tx = Append(@, [cmd |-> "Execute",
                                                        portal_name |-> p.name])],
             <<Ok("handler_ok")>>, "internal_cmd", {})
    ELSE Retire(st, Err("sequence_execute"))

(* ExecuteArm posting its message also when sequence_execute failed. *)
ExecuteArmPostsOnError(st, p, in) ==
    IF p.name \in st.prepared /\ in.ok
    THEN Out([st EXCEPT !.portals = @ \cup {p.name},
                        !.internal_cmd_tx = Append(@, [cmd |-> "Execute",
                                                        portal_name |-> p.name])],
             <<>>, "internal_cmd", {})
    ELSE Retire([st EXCEPT !.internal_cmd_tx = Append(@, [cmd |-> "Execute",
                                                          portal_name |-> p.name])],
                Err("sequence_execute"))

(* ExecuteArm keeping the context for a routine besides sending its parts
   off in the message. *)
ExecuteArmKeepsSession(st, p, in) ==
    IF p.name \in st.prepared /\ in.ok
    THEN Out([st EXCEPT !.portals = @ \cup {p.name},
                        !.internal_cmd_tx = Append(@, [cmd |-> "Execute",
                                                        portal_name |-> p.name])],
             <<>>, "routine", {})
    ELSE Retire(st, Err("sequence_execute"))

(* Plan::Execute: sequence_execute binds the prepared statement to a
   portal; on success the context travels in a Command::Execute message. *)
ExecuteArm(st, p, in) ==
    IF p.name \in st.prepared /\ in.ok
    THEN Out([st EXCEPT !.portals = @ \cup {p.name},
                        !.internal_cmd_tx = Append(@, [cmd |-> "Execute",
                                                        portal_name |-> p.name])],
             <<>>, "internal_cmd", {})
    ELSE Retire(st, Err("sequence_execute"))

(* DeallocateArm answering an error when there is nothing to remove. *)
DeallocateArmAllNeedsOne(st, p, in) ==
    IF p.name = 0
    THEN IF st.prepared = {} THEN Retire(st, NamedErr("UnknownPreparedStatement", 0))
         ELSE Retire([st EXCEPT !.prepared = {}], Ok("Deallocate:all"))
    ELSE IF p.name \in st.prepared
    THEN Retire([st EXCEPT !.prepared = @ \ {p.name}], Ok("Deallocate"))
    ELSE Retire(st, NamedErr("UnknownPreparedStatement", p.name))

(* Plan::Deallocate; name 0 is None. *)
DeallocateArm(st, p, in) ==
    IF p.name = 0
    THEN Retire([st EXCEPT !.prepared = {}], Ok("Deallocate:all"))
    ELSE IF p.name \in st.prepared
    THEN Retire([st EXCEPT !.prepared = @ \ {p.name}], Ok("Deallocate"))
    ELSE Retire(st, NamedErr("UnknownPreparedStatement", p.name))

(* AlterSourceArm treating the plan as if it had been purified. *)
AlterSourceArmAsPurified(st, p, in) == CatalogArm(st, p, in)

(* Plan::AlterSource: unreachable!("ALTER SOURCE must be purified"). *)
AlterSourceArm(st, p, in) == Panic(st)

(* The match of sequence_plan. *)
Dispatch(st, p, in) ==
    CASE p.kind \in CatalogKinds -> CatalogArm(st, p, in)
      [] p.kind \in SessionKinds -> SessionArm(st, p, in)
      [] p.kind \in RoutineKinds -> RoutineArm(st, p, in)
      [] p.kind = "CreateSource" -> CreateSourceArm(st, p, in)
      [] p.kind = "EmptyQuery" -> Retire(st, Ok("EmptyQuery"))
      [] p.kind = "StartTransaction" -> StartTransactionArm(st, p, in)
      [] p.kind = "ShowCreate" -> Retire(st, Ok("SendingRowsImmediate"))
      [] p.kind = "CopyFrom" -> Retire(st, Ok("CopyFrom"))
      [] p.kind = "AlterNoop" -> Retire(st, Ok("AlteredObject"))
      [] p.kind = "AlterSource" -> AlterSourceArm(st, p, in)
      [] p.kind = "DiscardTemp" -> Retire(DropTempItems(st), Ok("DiscardedTemp"))
      [] p.kind = "DiscardAll" -> DiscardAllArm(st, p, in)
      [] p.kind = "Fetch" -> Retire(st, Ok("Fetch"))
      [] p.kind = "Close" -> CloseArm(st, p, in)
      [] p.kind = "Prepare" -> PrepareArm(st, p, in)
      [] p.kind = "Execute" -> ExecuteArm(st, p, in)
      [] p.kind = "Deallocate" -> DeallocateArm(st, p, in)
      [] p.kind = "Raise" -> Retire(AddNotice(st, "UserRequested"), Ok("Raised"))
      [] p.kind = "ValidateConnection" -> Out(st, <<>>, "task", {})

(* ExecuteResponse::generated_from: the response kinds a plan of this kind
   can be answered with; a set that is a function of the plan kind. *)
GeneratedFrom(kind) == {"generated_from:" \o kind}

(* The responses sequence_plan passes to set_allowed: those generated from
   the plan's kind, and Canceled. *)
AllowedResponses(p) == GeneratedFrom(p.kind) \cup {"Canceled"}

(* SequencePlanOut running the match before it looks at the gate's answer. *)
SequencePlanOutDispatchFirst(st, p, in) ==
    LET g == AuthGate(in.gate)
        d == Dispatch(st, p, in)
    IN IF g.err # "none"
       THEN [out |-> [Retire(d.st, Err(g.err)) EXCEPT !.raised = @ \cup g.raised],
             gate |-> g, dispatched |-> FALSE, allowed |-> AllowedResponses(p)]
       ELSE [out |-> [d EXCEPT !.raised = @ \cup g.raised], gate |-> g,
             dispatched |-> TRUE, allowed |-> AllowedResponses(p)]

(* SequencePlanOut declaring the allowed responses only once the gate has
   let the plan through. *)
SequencePlanOutAllowedAfterGate(st, p, in) ==
    LET g == AuthGate(in.gate)
    IN IF g.err # "none"
       THEN [out |-> [Retire(st, Err(g.err)) EXCEPT !.raised = @ \cup g.raised],
             gate |-> g, dispatched |-> FALSE, allowed |-> {}]
       ELSE LET d == Dispatch(st, p, in)
            IN [out |-> [d EXCEPT !.raised = @ \cup g.raised], gate |-> g,
                dispatched |-> TRUE, allowed |-> AllowedResponses(p)]

(* Coordinator::sequence_plan: the allowed responses are declared, then
   the gate runs, then the match. *)
SequencePlanOut(st, p, in) ==
    LET allowed == AllowedResponses(p)
        g == AuthGate(in.gate)
    IN IF g.err # "none"
       THEN [out |-> [Retire(st, Err(g.err)) EXCEPT !.raised = @ \cup g.raised],
             gate |-> g, dispatched |-> FALSE, allowed |-> allowed]
       ELSE LET d == Dispatch(st, p, in)
            IN [out |-> [d EXCEPT !.raised = @ \cup g.raised], gate |-> g,
                dispatched |-> TRUE, allowed |-> allowed]

(***************************************************************************)
(* The differential logging demux (compute/src/logging/differential.rs).   *)
(***************************************************************************)

(* The operators that share arrangement traces. *)
Operators == 1..MaxOperators

(* The diffs a TraceShare event carries; none is zero. *)
ShareDiffs == {d \in (0 - MaxShare)..MaxShare : d # 0}

(* A map with no entry. *)
EmptyMap == [k \in {} |-> 0]

(* BTreeMap::insert. *)
MapInsert(map, k, v) == [j \in DOMAIN map \cup {k} |-> IF j = k THEN v ELSE map[j]]

(* BTreeMap::remove. *)
MapRemove(map, k) == [j \in DOMAIN map \ {k} |-> map[j]]

(* BTreeMap::entry(k).or_default(): the entry is there afterwards. *)
OrDefault(map, k) == IF k \in DOMAIN map THEN map ELSE MapInsert(map, k, 0)

(* ComputeEvent::ArrangementHeapSizeOperatorDrop. *)
ArrangementHeapSizeOperatorDrop(operator_id) ==
    [event |-> "ArrangementHeapSizeOperatorDrop", operator_id |-> operator_id]

(* DemuxState::default() and empty outputs: output_sharing is what the
   sharing output has been given, summed per operator; compute_events is
   the sequence given to the compute_events output. *)
NoDifferentialDemux ==
    [sharing |-> EmptyMap, output_sharing |-> [o \in Operators |-> 0],
     compute_events |-> <<>>, panicked |-> FALSE, handled |-> 0]

(* handle_trace_share keeping the entry whose count reached zero. *)
HandleTraceShareKeepsZeroEntry(d, event) ==
    LET operator_id == event.operator
        diff == event.diff
        given == [d EXCEPT !.output_sharing[operator_id] = @ + diff]
        entered == OrDefault(d.sharing, operator_id)
        sharing == entered[operator_id] + diff
    IN IF sharing < 0
       THEN [given EXCEPT !.sharing = entered, !.panicked = TRUE]
       ELSE IF sharing = 0
       THEN [given EXCEPT !.sharing = MapInsert(entered, operator_id, sharing),
                          !.compute_events =
                              Append(@, ArrangementHeapSizeOperatorDrop(operator_id))]
       ELSE [given EXCEPT !.sharing = MapInsert(entered, operator_id, sharing)]

(* DemuxHandler::handle_trace_share: the diff is given to the sharing
   output; the operator's entry, made with zero when absent, takes the diff;
   a count below zero does not convert back to usize and the handler
   panics; an entry that reached zero is removed and the drop event given. *)
HandleTraceShare(d, event) ==
    LET operator_id == event.operator
        diff == event.diff
        given == [d EXCEPT !.output_sharing[operator_id] = @ + diff]
        entered == OrDefault(d.sharing, operator_id)
        sharing == entered[operator_id] + diff
    IN IF sharing < 0
       THEN [given EXCEPT !.sharing = entered, !.panicked = TRUE]
       ELSE IF sharing = 0
       THEN [given EXCEPT !.sharing = MapRemove(entered, operator_id),
                          !.compute_events =
                              Append(@, ArrangementHeapSizeOperatorDrop(operator_id))]
       ELSE [given EXCEPT !.sharing = MapInsert(entered, operator_id, sharing)]

(***************************************************************************)
(* The timely logging demux (dataflow/src/logging/timely.rs).              *)
(***************************************************************************)

(* The histogram kept for retraction has this many buckets. *)
Buckets == 64

Workers == 0..(Peers - 1)
Dataflows == 1..MaxDataflows

(* What timely announces of a dataflow: the dataflow itself, an operator
   inside it, and the channels in its scope.  Operators and channels take
   their identifiers from one counter of the worker, so no two are equal. *)
IdsPerDataflow == 2 + MaxChannels
DataflowOperates(f) ==
    [id |-> (f - 1) * IdsPerDataflow + 1, name |-> "Dataflow", addr |-> <<f>>]
InnerOperates(f) ==
    [id |-> (f - 1) * IdsPerDataflow + 2, name |-> "Operator", addr |-> <<f, 1>>]
ChannelsEvent(f, c) ==
    [id |-> (f - 1) * IdsPerDataflow + 2 + c, scope_addr |-> <<f>>,
     source |-> <<c, 0>>, target |-> <<c + 1, 0>>]
OperatesEvents == {DataflowOperates(f) : f \in Dataflows} \cup {InnerOperates(f) : f \in Dataflows}
ChannelsEvents == {ChannelsEvent(f, c) : f \in Dataflows, c \in 1..MaxChannels}
OperatorIds == {e.id : e \in OperatesEvents}
ChannelIds == {e.id : e \in ChannelsEvents}

(* hash_vec: a hash of the address, many addresses to one value. *)
RECURSIVE HashVec(_)
HashVec(addr) ==
    IF addr = <<>> THEN 0
    ELSE (31 * HashVec(SubSeq(addr, 1, Len(addr) - 1)) + addr[Len(addr)]) % HashSpace

(* u128::next_power_of_two: the least power of two not below n; 1 for 0. *)
RECURSIVE PowerOfTwoFrom(_, _)
PowerOfTwoFrom(p, n) == IF p >= n THEN p ELSE PowerOfTwoFrom(2 * p, n)
NextPowerOfTwo(n) == PowerOfTwoFrom(1, n)

(* u128::trailing_zeros of a power of two. *)
RECURSIVE TrailingZeros(_)
TrailingZeros(p) == IF p % 2 = 1 THEN 0 ELSE 1 + TrailingZeros(p \div 2)

(* 1 << index. *)
RECURSIVE ShiftLeftOne(_)
ShiftLeftOne(index) == IF index = 0 THEN 1 ELSE 2 * ShiftLeftOne(index - 1)

(* What an output has been given, summed per row over all times; a row
   whose updates cancel is not in the collection. *)
Net(collection, row) == IF row \in DOMAIN collection THEN collection[row] ELSE 0
Accumulate(collection, row, diff) ==
    IF Net(collection, row) + diff = 0 THEN MapRemove(collection, row)
    ELSE MapInsert(collection, row, Net(collection, row) + diff)

(* ConsolidateBuffer::give on one of the demux outputs; given counts the
   updates the outputs were given. *)
Give(d, output, row, diff) ==
    [d EXCEPT ![output] = Accumulate(@, row, diff), !.given = @ + 1]

(* The maps and outputs of the demux operator when it is built, with the
   worker whose log it reads and the identifiers timely has announced so
   far. *)
NoTimelyDemux ==
    [worker |-> 0,
     operates_data |-> EmptyMap, channels_data |-> EmptyMap,
     schedules_stash |-> EmptyMap, messages_sent_data |-> EmptyMap,
     messages_received_data |-> EmptyMap, schedules_data |-> EmptyMap,
     operates |-> EmptyMap, channels |-> EmptyMap, addresses |-> EmptyMap,
     address_validation |-> EmptyMap, messages_sent |-> EmptyMap,
     messages_received |-> EmptyMap, schedules_duration |-> EmptyMap,
     schedules_histogram |-> EmptyMap,
     given |-> 0, announced |-> {}]

(* TimelyEvent::Operates. *)
TimelyOperates(d, worker, event) ==
    LET d1 == [d EXCEPT !.operates_data = MapInsert(@, <<event.id, worker>>, event)]
        d2 == Give(d1, "operates", <<(<<event.id, worker>>), event.name>>, 1)
        d3 == Give(d2, "address_validation", <<event.id, HashVec(event.addr)>>, 1)
    IN Give(d3, "addresses", <<event.id, worker, event.addr>>, 1)

(* The description of a channel in the channels output. *)
ChannelRow(worker, event) ==
    <<(<<event.id, worker>>), event.source[1], event.source[2],
      event.target[1], event.target[2]>>

(* TimelyEvent::Channels. *)
TimelyChannels(d, worker, event) ==
    LET key == <<event.scope_addr[1], worker>>
        before == IF key \in DOMAIN d.channels_data THEN d.channels_data[key] ELSE <<>>
        d1 == [d EXCEPT !.channels_data = MapInsert(@, key, Append(before, event))]
        d2 == Give(d1, "channels", ChannelRow(worker, event), 1)
        d3 == Give(d2, "address_validation", <<event.id, HashVec(event.scope_addr)>>, 1)
    IN Give(d3, "addresses", <<event.id, worker, event.scope_addr>>, 1)

(* The retraction of an operator's schedules, bucket by bucket from index
   on: a bucket that counted no activation is passed over. *)
RECURSIVE RetractSchedules(_, _, _, _, _)
RetractSchedules(d, id, worker, schedules, index) ==
    IF index >= Len(schedules) THEN d
    ELSE LET pow == schedules[index + 1][1]
             elapsed_ns == schedules[index + 1][2]
             d1 == IF pow # 0
                   THEN Give(Give(d, "schedules_duration", <<id, worker>>, 0 - elapsed_ns),
                             "schedules_histogram", <<id, worker, ShiftLeftOne(index)>>,
                             0 - pow)
                   ELSE d
         IN RetractSchedules(d1, id, worker, schedules, index + 1)

(* The retraction of the counts of one channel, peer by peer from index on. *)
RECURSIVE RetractCounts(_, _, _, _, _, _)
RetractCounts(d, output, id, worker, counts, index) ==
    IF index >= Len(counts) THEN d
    ELSE RetractCounts(Give(d, output, <<(<<id, worker>>), index>>, 0 - counts[index + 1]),
                       output, id, worker, counts, index + 1)

(* The retraction of the channels of a dataflow, in the order they were
   announced, each with its message counts and its address. *)
RECURSIVE RetractChannels(_, _, _)
RetractChannels(d, worker, events) ==
    IF events = <<>> THEN d
    ELSE LET event == Head(events)
             key == <<event.id, worker>>
             d1 == Give(d, "channels", ChannelRow(worker, event), 0 - 1)
             d2 == IF key \in DOMAIN d1.messages_sent_data
                   THEN RetractCounts([d1 EXCEPT !.messages_sent_data = MapRemove(@, key)],
                                      "messages_sent", event.id, worker,
                                      d1.messages_sent_data[key], 0)
                   ELSE d1
             d3 == IF key \in DOMAIN d2.messages_received_data
                   THEN RetractCounts([d2 EXCEPT !.messages_received_data = MapRemove(@, key)],
                                      "messages_received", event.id, worker,
                                      d2.messages_received_data[key], 0)
                   ELSE d2
             d4 == Give(d3, "address_validation",
                        <<event.id, HashVec(event.scope_addr)>>, 1)
             d5 == Give(d4, "addresses", <<event.id, worker, event.scope_addr>>, 0 - 1)
         IN RetractChannels(d5, worker, Tail(events))

(* TimelyEvent::Shutdown reading the operator without taking it out of
   operates_data. *)
TimelyShutdownKeepsOperator(d, worker, shutdown) ==
    LET key == <<shutdown.id, worker>>
    IN IF key \notin DOMAIN d.operates_data THEN d
       ELSE LET event == d.operates_data[key]
                d2 == Give(d, "operates", <<(<<event.id, worker>>), event.name>>, 0 - 1)
                d3 == IF key \in DOMAIN d2.schedules_data
                      THEN RetractSchedules([d2 EXCEPT !.schedules_data = MapRemove(@, key)],
                                            event.id, worker, d2.schedules_data[key], 0)
                      ELSE d2
                dataflow == <<event.addr[1], worker>>
                d4 == IF Len(event.addr) = 1 /\ dataflow \in DOMAIN d3.channels_data
                      THEN RetractChannels([d3 EXCEPT !.channels_data = MapRemove(@, dataflow)],
                                           worker, d3.channels_data[dataflow])
                      ELSE d3
                d5 == Give(d4, "address_validation", <<event.id, HashVec(event.addr)>>, 1)
            IN Give(d5, "addresses", <<event.id, worker, event.addr>>, 0 - 1)

(* TimelyEvent::Shutdown: nothing for an operator that is not in
   operates_data; otherwise the operator is taken out and its announcement,
   its schedules, for a dataflow its channels, and its address are
   retracted. *)
TimelyShutdown(d, worker, shutdown) ==
    LET key == <<shutdown.id, worker>>
    IN IF key \notin DOMAIN d.operates_data THEN d
       ELSE LET event == d.operates_data[key]
                d1 == [d EXCEPT !.operates_data = MapRemove(@, key)]
                d2 == Give(d1, "operates", <<(<<event.id, worker>>), event.name>>, 0 - 1)
                d3 == IF key \in DOMAIN d2.schedules_data
                      THEN RetractSchedules([d2 EXCEPT !.schedules_data = MapRemove(@, key)],
                                            event.id, worker, d2.schedules_data[key], 0)
                      ELSE d2
                dataflow == <<event.addr[1], worker>>
                d4 == IF Len(event.addr) = 1 /\ dataflow \in DOMAIN d3.channels_data
                      THEN RetractChannels([d3 EXCEPT !.channels_data = MapRemove(@, dataflow)],
                                           worker, d3.channels_data[dataflow])
                      ELSE d3
                d5 == Give(d4, "address_validation", <<event.id, HashVec(event.addr)>>, 1)
            IN Give(d5, "addresses", <<event.id, worker, event.addr>>, 0 - 1)

(* vec![0; peers] with the count at index raised. *)
CountsRaised(map, key, index, length) ==
    LET before == IF key \in DOMAIN map THEN map[key] ELSE [i \in 1..Peers |-> 0]
    IN MapInsert(map, key, [before EXCEPT ![index + 1] = @ + length])

(* TimelyEvent::Messages. *)
TimelyMessages(d, worker, event) ==
    IF event.is_send
    THEN Give([d EXCEPT !.messages_sent_data =
                            CountsRaised(@, <<event.channel, event.source>>,
                                         event.target, event.length)],
              "messages_sent", <<(<<event.channel, event.source>>), event.target>>,
              event.length)
    ELSE Give([d EXCEPT !.messages_received_data =
                            CountsRaised(@, <<event.channel, event.target>>,
                                         event.source, event.length)],
              "messages_received", <<(<<event.channel, event.target>>), event.source>>,
              event.length)

(* TimelyEvent::Schedule: Start stashes the time; Stop takes it out, adds
   the activation to the bucket of its duration and gives the duration and
   the histogram row.  A Stop arrives only after its Start. *)
TimelySchedule(d, worker, time_ns, event) ==
    LET key == <<worker, event.id>>
    IN IF event.start_stop = "Start"
       THEN [d EXCEPT !.schedules_stash = MapInsert(@, key, time_ns)]
       ELSE LET start == d.schedules_stash[key]
                elapsed_ns == time_ns - start
                index == TrailingZeros(NextPowerOfTwo(elapsed_ns))
                data == <<event.id, worker>>
                before == IF data \in DOMAIN d.schedules_data THEN d.schedules_data[data]
                          ELSE [i \in 1..Buckets |-> <<0, 0>>]
                entry == <<before[index + 1][1] + 1, before[index + 1][2] + elapsed_ns>>
                d1 == [d EXCEPT !.schedules_stash = MapRemove(@, key),
                                !.schedules_data =
                                    MapInsert(@, data, [before EXCEPT ![index + 1] = entry])]
                d2 == Give(d1, "schedules_duration", <<event.id, worker>>, elapsed_ns)
            IN Give(d2, "schedules_histogram",
                    <<event.id, worker, NextPowerOfTwo(elapsed_ns)>>, 1)

(***************************************************************************)
(* The coordinator serving one connection.                                 *)
(***************************************************************************)
Init ==
    /\ txn = "Default"
    /\ txn_ops = NoOps
    /\ prepared = {}
    /\ portals = {}
    /\ session_vars_set = FALSE
    /\ temp_items = FALSE
    /\ transient_id_counter \in {1, MaxId - 1}
    /\ catalog_rev = 0
    /\ internal_cmd_tx = <<>>
    /\ notices = <<>>
    /\ ctx = NoCtx
    /\ crashed = FALSE
    /\ nstmt = 0
    /\ dplan = "none"
    /\ dout = NoOut
    /\ sst = NoSst
    /\ coord = NoCoord
    /\ allocated = <<>>
    /\ relation = <<>>
    /\ differential_demux = NoDifferentialDemux
    /\ timely_demux = NoTimelyDemux

SetState(st) ==
    /\ txn' = st.txn
    /\ txn_ops' = st.txn_ops
    /\ prepared' = st.prepared
    /\ portals' = st.portals
    /\ session_vars_set' = st.session_vars_set
    /\ temp_items' = st.temp_items
    /\ transient_id_counter' = st.transient_id_counter
    /\ catalog_rev' = st.catalog_rev
    /\ relation' = st.relation
    /\ internal_cmd_tx' = st.internal_cmd_tx
    /\ notices' = st.notices

(* The statement in flight was answered with an error inside an explicit
   transaction and the session is not yet marked as failed. *)
FailurePending ==
    /\ ctx.handoff = "none"
    /\ ctx.sent # <<>>
    /\ ~ctx.sent[Len(ctx.sent)].ok
    /\ txn \in {"Started", "InTransaction"}

(* The connection has no statement outstanding. *)
Idle ==
    /\ ctx.handoff = "none"
    /\ internal_cmd_tx = <<>>
    /\ sst.pc = "none"
    /\ ctx.kind # "none" => ctx.sent # <<>>
    /\ ~FailurePending

(* A statement that arrives while the session's transaction has failed is
   rejected before it is sequenced, unless it ends the transaction. *)
RejectedInFailed(kind) == txn = "Failed" /\ kind \notin EndTransactionKinds

(* The client's next statement reaches the coordinator with a fresh context. *)
Receive(kind, name, implicit) ==
    /\ ~crashed
    /\ Idle
    /\ nstmt < MaxStmts
    /\ nstmt' = nstmt + 1
    /\ ctx' = IF RejectedInFailed(kind)
              THEN [NoCtx EXCEPT !.kind = kind, !.name = name, !.implicit = implicit,
                                 !.sent = <<Err("TransactionAborted")>>]
              ELSE [NoCtx EXCEPT !.kind = kind, !.name = name, !.implicit = implicit,
                                 !.handoff = "inbound"]
    /\ notices' = <<>>
    /\ UNCHANGED <<txn, txn_ops, prepared, portals, session_vars_set, temp_items,
                   transient_id_counter, catalog_rev, internal_cmd_tx, crashed,
                   dplan, dout, sst, coord, allocated, relation, differential_demux,
                   timely_demux>>

(* The statement failed inside an explicit transaction: the session's
   transaction is marked as failed before the next statement is taken. *)
FailTransaction ==
    /\ ~crashed
    /\ FailurePending
    /\ txn' = "Failed"
    /\ UNCHANGED <<txn_ops, prepared, portals, session_vars_set, temp_items,
                   transient_id_counter, catalog_rev, internal_cmd_tx, notices,
                   ctx, crashed, nstmt, dplan, dout, sst, coord, allocated, relation, differential_demux,
                   timely_demux>>

(* Coordinator::sequence_plan on the statement received. *)
SequencePlan(in) ==
    /\ ~crashed
    /\ ctx.handoff = "inbound"
    /\ LET r == SequencePlanOut(State, ctx, in)
       IN /\ SetState(r.out.st)
          /\ ctx' = [ctx EXCEPT !.handoff = r.out.handoff,
                                !.sent = @ \o r.out.retire,
                                !.steps = r.gate.steps,
                                !.failed_check = FirstFailedCheck(in.gate),
                                !.raised = r.out.raised,
                                !.dispatched = r.dispatched,
                                !.allowed = r.allowed,
                                !.calls = r.out.calls]
          /\ crashed' = r.out.panic
    /\ UNCHANGED <<nstmt, dplan, dout, sst, coord, allocated, differential_demux, timely_demux>>

(* A commit flushes the session's buffered writes: they are applied to the
   relations, in the order they were buffered. *)
Flush(st) == [st EXCEPT !.relation = @ \o st.txn_ops.writes]

(* EndTransaction answering a statement outside a transaction as if it
   had closed one. *)
EndTransactionAcceptsDefault(st, action, ok) ==
    IF ~ok THEN Retire(ClearTransaction(st), Err("end_transaction"))
    ELSE IF action = "Commit" /\ st.txn # "Failed"
    THEN Retire(ClearTransaction(Flush(st)), Ok("TransactionCommitted"))
    ELSE Retire(ClearTransaction(st), Ok("TransactionRolledBack"))

(* sequence_end_transaction: outside a transaction the statement is
   rejected; a failed transaction can only be rolled back; otherwise the
   transaction is committed or rolled back, and it is closed whether or not
   that succeeds. *)
EndTransaction(st, action, ok) ==
    IF st.txn = "Default" THEN Retire(st, Err("NoTransactionInProgress"))
    ELSE IF ~ok THEN Retire(ClearTransaction(st), Err("end_transaction"))
    ELSE IF action = "Commit" /\ st.txn # "Failed"
    THEN Retire(ClearTransaction(Flush(st)), Ok("TransactionCommitted"))
    ELSE Retire(ClearTransaction(st), Ok("TransactionRolledBack"))

(* The relation a write plan targets: InsertPlan::id, ReadThenWritePlan::id. *)
PlanId(p) == IF p.kind = "Insert" THEN 1 ELSE 2

(* The routine a RoutineArm moved the context into, run to its end. *)
RoutineOut(st, p, in) ==
    CASE p.kind \in EndTransactionKinds ->
            EndTransaction(st, p.calls[Len(p.calls)].arg, in.ok)
      [] p.kind \in {"Insert", "ReadThenWrite"} ->
            IF ~in.pre_ok THEN Retire(st, Err("routine"))
            ELSE LET d == SendDiffs(st.txn_ops,
                                    [id |-> PlanId(p), updates |-> << <<(<<1>>), 1>> >>,
                                     kind |-> "Insert", returning |-> <<>>,
                                     max_result_size |-> 1])
                 IN Retire([st EXCEPT !.txn_ops = IF st.txn = "Default" THEN @ ELSE d.ops,
                                      !.relation = IF st.txn = "Default" /\ d.result.ok
                                                   THEN @ \o d.ops.writes ELSE @,
                                      !.txn = IF @ = "Started" /\ d.result.ok
                                              THEN "InTransaction" ELSE @],
                           IF d.result.ok THEN Ok(d.result.val) ELSE Err(d.result.val))
      [] p.kind \in {"Select", "ShowColumns"} ->
            LET a == AllocateTransientId(st)
            IN IF ~a.ok THEN Retire(st, Err("id counter overflows i64"))
               ELSE [(IF ~in.ok THEN Retire(a.st, Err("routine"))
                      ELSE Retire([a.st EXCEPT
                                      !.txn_ops = IF st.txn # "Default" /\ @.type = "None"
                                                  THEN [@ EXCEPT !.type = "Peeks"] ELSE @,
                                      !.txn = IF @ = "Started" THEN "InTransaction" ELSE @],
                                  Ok("SendingRows")))
                     EXCEPT !.calls = <<Call("allocate_transient_id", a.id)>>]
      [] OTHER -> Retire(st, IF in.ok THEN Ok("routine_ok") ELSE Err("routine"))

(* The transient ids a run was given by allocate_transient_id. *)
RECURSIVE IdsAllocated(_)
IdsAllocated(calls) ==
    IF calls = <<>> THEN <<>>
    ELSE (IF Head(calls).fn = "allocate_transient_id" THEN <<Head(calls).arg>> ELSE <<>>)
         \o IdsAllocated(Tail(calls))

(* A routine holding the context retires it: with its own result, or with
   Canceled; sequence_end_transaction is not interrupted. *)
RoutineRetire(in, canceled) ==
    /\ ~crashed
    /\ ctx.handoff = "routine"
    /\ canceled => ctx.kind \notin EndTransactionKinds
    /\ LET r == IF canceled THEN Retire(State, Ok("Canceled"))
                ELSE RoutineOut(State, ctx, in)
       IN /\ SetState(r.st)
          /\ ctx' = [ctx EXCEPT !.handoff = "none", !.sent = @ \o r.retire,
                                !.raised = @ \cup r.raised]
          /\ allocated' = allocated \o IdsAllocated(r.calls)
    /\ UNCHANGED <<crashed, nstmt, dplan, dout, sst, coord, differential_demux, timely_demux>>

(* The coordinator takes the Command::Execute message off its internal
   queue and runs the portal; the result goes to the sender in the message. *)
ExecuteMessage(ok) ==
    /\ ~crashed
    /\ internal_cmd_tx # <<>>
    /\ Head(internal_cmd_tx).cmd = "Execute"
    /\ internal_cmd_tx' = Tail(internal_cmd_tx)
    /\ ctx' = [ctx EXCEPT !.handoff = IF @ = "internal_cmd" THEN "none" ELSE @,
                          !.sent = Append(@, IF ok THEN Ok("executed") ELSE Err("execute")),
                          !.raised = IF ok THEN @ ELSE @ \cup {"execute"}]
    /\ UNCHANGED <<txn, txn_ops, prepared, portals, session_vars_set, temp_items,
                   transient_id_counter, catalog_rev, notices, crashed, nstmt,
                   dplan, dout, sst, coord, allocated, relation, differential_demux,
                   timely_demux>>

(***************************************************************************)
(* sequence_execute_single_statement_transaction: the statement of the     *)
(* portal runs in a single-statement implicit transaction on a temporary   *)
(* transmitter, and a spawned task commits and answers the client.         *)
(***************************************************************************)

(* ForwardedResult sending the commit's result in every case. *)
ForwardedResultAlwaysCommit(result, commit) == commit

(* The result the task sends to the client: the commit's result when the
   statement succeeded, the statement's error otherwise. *)
ForwardedResult(result, commit) ==
    IF result.ok THEN commit ELSE result

(* Session::start_transaction_single_stmt. *)
StartTransactionSingleStmt(st) == [st EXCEPT !.txn = "InTransactionImplicit"]

(* SingleStmtStart leaving the session outside a transaction while the
   statement runs. *)
SingleStmtStartKeepsDefault ==
    /\ ~crashed
    /\ internal_cmd_tx # <<>>
    /\ Head(internal_cmd_tx).cmd = "Execute"
    /\ ctx.handoff = "internal_cmd"
    /\ sst.pc = "none"
    /\ txn = "Default"
    /\ internal_cmd_tx' = Tail(internal_cmd_tx)
    /\ ctx' = [ctx EXCEPT !.handoff = "single_stmt"]
    /\ sst' = [NoSst EXCEPT !.pc = "inner"]
    /\ UNCHANGED <<txn, txn_ops, prepared, portals, session_vars_set, temp_items,
                   transient_id_counter, catalog_rev, notices, crashed, nstmt,
                   dplan, dout, coord, allocated, relation, differential_demux,
                   timely_demux>>

(* The coordinator takes the Command::Execute message off its internal
   queue and runs the portal's statement through the single-statement
   protocol: the session's transaction must be Default; the statement is
   started on the temporary context and the task is spawned. *)
SingleStmtStart ==
    /\ ~crashed
    /\ internal_cmd_tx # <<>>
    /\ Head(internal_cmd_tx).cmd = "Execute"
    /\ ctx.handoff = "internal_cmd"
    /\ sst.pc = "none"
    /\ txn = "Default"
    /\ internal_cmd_tx' = Tail(internal_cmd_tx)
    /\ txn' = StartTransactionSingleStmt(State).txn
    /\ ctx' = [ctx EXCEPT !.handoff = "single_stmt"]
    /\ sst' = [NoSst EXCEPT !.pc = "inner"]
    /\ UNCHANGED <<txn_ops, prepared, portals, session_vars_set, temp_items,
                   transient_id_counter, catalog_rev, notices, crashed, nstmt,
                   dplan, dout, coord, allocated, relation, differential_demux,
                   timely_demux>>

(* The statement retires the temporary context: its result and the session
   reach the task through sub_rx. *)
SingleStmtInnerRetires(ok) ==
    /\ ~crashed
    /\ sst.pc = "inner"
    /\ sst' = [sst EXCEPT !.pc = "got_result",
                          !.result = IF ok THEN Ok("inner") ELSE Err("inner")]
    /\ UNCHANGED <<txn, txn_ops, prepared, portals, session_vars_set, temp_items,
                   transient_id_counter, catalog_rev, internal_cmd_tx, notices,
                   ctx, crashed, nstmt, dplan, dout, coord, allocated, relation, differential_demux,
                   timely_demux>>

(* SingleStmtPostCommit putting its message ahead of the messages that
   wait in the queue. *)
SingleStmtPostCommitJumpsQueue ==
    /\ ~crashed
    /\ sst.pc = "got_result"
    /\ internal_cmd_tx' = <<[cmd |-> "Commit", portal_name |-> 0]>> \o internal_cmd_tx
    /\ sst' = [sst EXCEPT !.pc = "await_commit", !.posted = @ + 1]
    /\ UNCHANGED <<txn, txn_ops, prepared, portals, session_vars_set, temp_items,
                   transient_id_counter, catalog_rev, notices,
                   ctx, crashed, nstmt, dplan, dout, coord, allocated, relation, differential_demux,
                   timely_demux>>

(* SingleStmtPostCommit posting no commit after a failed statement: the task
   closes the transaction itself and goes on to answer the client. *)
SingleStmtPostCommitSkipsOnError ==
    /\ ~crashed
    /\ sst.pc = "got_result"
    /\ IF sst.result.ok
       THEN /\ internal_cmd_tx' = Append(internal_cmd_tx,
                                         [cmd |-> "Commit", portal_name |-> 0])
            /\ sst' = [sst EXCEPT !.pc = "await_commit", !.posted = @ + 1]
            /\ UNCHANGED <<txn, txn_ops>>
       ELSE /\ sst' = [sst EXCEPT !.pc = "got_commit", !.commit = sst.result]
            /\ txn' = "Default"
            /\ txn_ops' = NoOps
            /\ UNCHANGED internal_cmd_tx
    /\ UNCHANGED <<prepared, portals, session_vars_set, temp_items,
                   transient_id_counter, catalog_rev, notices,
                   ctx, crashed, nstmt, dplan, dout, coord, allocated, relation, differential_demux,
                   timely_demux>>

(* The task has the statement's response: it posts Command::Commit with the
   session and waits for the commit's response. *)
SingleStmtPostCommit ==
    /\ ~crashed
    /\ sst.pc = "got_result"
    /\ internal_cmd_tx' = Append(internal_cmd_tx, [cmd |-> "Commit", portal_name |-> 0])
    /\ sst' = [sst EXCEPT !.pc = "await_commit", !.posted = @ + 1]
    /\ UNCHANGED <<txn, txn_ops, prepared, portals, session_vars_set, temp_items,
                   transient_id_counter, catalog_rev, notices,
                   ctx, crashed, nstmt, dplan, dout, coord, allocated, relation, differential_demux,
                   timely_demux>>

(* The coordinator takes the Command::Commit message off its internal queue
   and ends the session's transaction; the result goes to the task. *)
CommitMessage(ok) ==
    /\ ~crashed
    /\ internal_cmd_tx # <<>>
    /\ Head(internal_cmd_tx).cmd = "Commit"
    /\ sst.pc = "await_commit"
    /\ LET r == EndTransaction(State, "Commit", ok)
       IN /\ SetState([r.st EXCEPT !.internal_cmd_tx = Tail(internal_cmd_tx)])
          /\ sst' = [sst EXCEPT !.pc = "got_commit", !.commit = r.retire[1],
                                !.processed = @ + 1]
    /\ UNCHANGED <<ctx, crashed, nstmt, dplan, dout, coord, allocated, differential_demux, timely_demux>>

(* The task has the commit's response: the session it carries must be in
   Default; the task sends the client its one response. *)
SingleStmtSend ==
    /\ ~crashed
    /\ sst.pc = "got_commit"
    /\ IF txn # "Default"
       THEN /\ crashed' = TRUE
            /\ UNCHANGED ctx
       ELSE /\ ctx' = [ctx EXCEPT !.handoff = "none",
                                  !.sent = Append(@, ForwardedResult(sst.result, sst.commit))]
            /\ UNCHANGED crashed
    /\ sst' = [sst EXCEPT !.pc = "none"]
    /\ UNCHANGED <<txn, txn_ops, prepared, portals, session_vars_set, temp_items,
                   transient_id_counter, catalog_rev, internal_cmd_tx, notices,
                   nstmt, dplan, dout, coord, allocated, relation, differential_demux,
                   timely_demux>>

(* ValidateResult answering ValidatedConnection whatever the validation found. *)
ValidateResultSwallowsError(ok) == Ok("ValidatedConnection")

(* The result the coord::validate_connection task retires the context with. *)
ValidateResult(ok) == IF ok THEN Ok("ValidatedConnection") ELSE Err("validate")

(* ValidateConnectionTask recording the validation in the catalog. *)
ValidateConnectionTaskTouchesCatalog(ok) ==
    /\ ~crashed
    /\ ctx.handoff = "task"
    /\ ctx' = [ctx EXCEPT !.handoff = "none",
                          !.sent = Append(@, ValidateResult(ok)),
                          !.raised = IF ok THEN @ ELSE @ \cup {"validate"}]
    /\ catalog_rev' = catalog_rev + 1
    /\ UNCHANGED <<txn, txn_ops, prepared, portals, session_vars_set, temp_items,
                   transient_id_counter, internal_cmd_tx, notices,
                   crashed, nstmt, dplan, dout, sst, coord, allocated, relation, differential_demux,
                   timely_demux>>

(* The task spawned for Plan::ValidateConnection finishes. *)
ValidateConnectionTask(ok) ==
    /\ ~crashed
    /\ ctx.handoff = "task"
    /\ ctx' = [ctx EXCEPT !.handoff = "none",
                          !.sent = Append(@, ValidateResult(ok)),
                          !.raised = IF ok THEN @ ELSE @ \cup {"validate"}]
    /\ UNCHANGED <<txn, txn_ops, prepared, portals, session_vars_set, temp_items,
                   transient_id_counter, catalog_rev, internal_cmd_tx, notices,
                   crashed, nstmt, dplan, dout, sst, coord, allocated, relation, differential_demux,
                   timely_demux>>

(* The plans a client can send. *)
Plans ==
    [kind : PlanKinds \ (NamedKinds \cup {"CommitTransaction", "AbortTransaction"}),
     name : {0}, implicit : {FALSE}]
    \cup [kind : NamedKinds, name : Names, implicit : {FALSE}]
    \cup [kind : {"Deallocate"}, name : {0}, implicit : {FALSE}]
    \cup [kind : {"CommitTransaction", "AbortTransaction"}, name : {0}, implicit : BOOLEAN]

(* The inputs a plan kind's arm reads; the others are left TRUE. *)
InputsFor(kind) ==
    {in \in Inputs :
        /\ FirstFailedCheck(in.gate) # "none"
              => in.ok /\ in.pre_ok /\ in.resolved_empty /\ in.rbac_off /\ in.temporary
        /\ kind \notin (CatalogKinds \cup SessionKinds
                        \cup {"CreateSource", "Execute"}) => in.ok
        /\ kind # "CreateSource" => in.pre_ok
        /\ kind # "CreateSources" => in.resolved_empty
        /\ kind \notin {"CreateRole", "AlterRole"} => in.rbac_off
        /\ kind \notin {"CreateTable", "CreateView"} => in.temporary}

(* The inputs a routine reads. *)
RoutineInputsFor(kind) ==
    {in \in Inputs :
        /\ in.gate.hack /\ in.gate.restrict /\ in.gate.resolve /\ in.gate.rbac
        /\ in.resolved_empty /\ in.rbac_off /\ in.temporary
        /\ kind \notin {"Insert", "ReadThenWrite"} => in.pre_ok
        /\ kind \in {"Insert", "ReadThenWrite"} => in.ok}

ReceiveAny ==
    /\ nstmt < MaxStmts
    /\ Idle
    /\ \E p \in Plans : Receive(p.kind, p.name, p.implicit)
SequenceAny ==
    /\ ctx.handoff = "inbound"
    /\ \E in \in InputsFor(ctx.kind) : SequencePlan(in)
RoutineAny ==
    /\ ctx.handoff = "routine"
    /\ \/ \E in \in RoutineInputsFor(ctx.kind) : RoutineRetire(in, FALSE)
       \/ RoutineRetire(CHOOSE in \in RoutineInputsFor(ctx.kind) : TRUE, TRUE)
ExecuteAny == \E ok \in BOOLEAN : ExecuteMessage(ok)
ValidateAny == \E ok \in BOOLEAN : ValidateConnectionTask(ok)
SingleStmtAny ==
    \/ SingleStmtStart
    \/ \E ok \in BOOLEAN : SingleStmtInnerRetires(ok)
    \/ SingleStmtPostCommit
    \/ \E ok \in BOOLEAN : CommitMessage(ok)
    \/ SingleStmtSend

Next ==
    \/ ReceiveAny \/ SequenceAny \/ RoutineAny \/ ExecuteAny \/ ValidateAny
    \/ SingleStmtAny \/ FailTransaction

Spec == Init /\ [][Next]_vars

(***************************************************************************)
(* The coordinator serving the next statement of a connection whose        *)
(* session has already run statements: the session is in any transaction   *)
(* state, with any prepared statements, portals, variables and temporary   *)
(* items.                                                                  *)
(***************************************************************************)
PeekOps == [type |-> "Peeks", writes |-> <<>>]

(* The states a session can be in between two statements: outside a
   transaction and right after START TRANSACTION nothing is buffered. *)
SessionStates ==
    {s \in [txn : TxnStates, txn_ops : {NoOps, PeekOps},
            prepared : SUBSET Names, portals : SUBSET Names,
            session_vars_set : BOOLEAN, temp_items : BOOLEAN] :
        s.txn \in {"Default", "Started"} => s.txn_ops = NoOps}

InitSession ==
    /\ \E s \in SessionStates :
          /\ txn = s.txn
          /\ txn_ops = s.txn_ops
          /\ prepared = s.prepared
          /\ portals = s.portals
          /\ session_vars_set = s.session_vars_set
          /\ temp_items = s.temp_items
    /\ transient_id_counter = 1
    /\ catalog_rev = 1
    /\ internal_cmd_tx = <<>>
    /\ notices = <<>>
    /\ ctx = NoCtx
    /\ crashed = FALSE
    /\ nstmt = MaxStmts - 1
    /\ dplan = "none"
    /\ dout = NoOut
    /\ sst = NoSst
    /\ coord = NoCoord
    /\ allocated = <<>>
    /\ relation = <<>>
    /\ differential_demux = NoDifferentialDemux
    /\ timely_demux = NoTimelyDemux

SpecSession == InitSession /\ [][Next]_vars

(***************************************************************************)
(* The coordinator serving a connection from any live transaction state.   *)
(***************************************************************************)
InitTxn ==
    /\ txn \in TxnStates \ {"Failed"}
    /\ txn_ops \in (IF txn \in {"Default", "Started"} THEN {NoOps} ELSE {NoOps, PeekOps})
    /\ prepared = {}
    /\ portals = {}
    /\ session_vars_set = FALSE
    /\ temp_items = FALSE
    /\ transient_id_counter = 1
    /\ catalog_rev = 0
    /\ internal_cmd_tx = <<>>
    /\ notices = <<>>
    /\ ctx = NoCtx
    /\ crashed = FALSE
    /\ nstmt = 0
    /\ dplan = "none"
    /\ dout = NoOut
    /\ sst = NoSst
    /\ coord = NoCoord
    /\ allocated = <<>>
    /\ relation = <<>>
    /\ differential_demux = NoDifferentialDemux
    /\ timely_demux = NoTimelyDemux

SpecTxn == InitTxn /\ [][Next]_vars

(***************************************************************************)
(* The coordinator going away while a connection is served: its loop stops *)
(* and its channels close; the spawned tasks run on.                       *)
(***************************************************************************)
CoordinatorGoesAway ==
    /\ ~crashed
    /\ ~coord.gone
    /\ coord' = [coord EXCEPT !.gone = TRUE]
    /\ UNCHANGED <<txn, txn_ops, prepared, portals, session_vars_set, temp_items,
                   transient_id_counter, catalog_rev, internal_cmd_tx, notices,
                   ctx, crashed, nstmt, dplan, dout, sst, allocated, relation, differential_demux,
                   timely_demux>>

(* The task has the statement's response and the coordinator is gone:
   internal_cmd_tx.send fails, `let _ =` drops the error together with the
   message, and the task goes on to wait for the commit's response. *)
SingleStmtPostCommitGone ==
    /\ ~crashed
    /\ coord.gone
    /\ sst.pc = "got_result"
    /\ sst' = [sst EXCEPT !.pc = "await_commit", !.posted = @ + 1]
    /\ UNCHANGED <<txn, txn_ops, prepared, portals, session_vars_set, temp_items,
                   transient_id_counter, catalog_rev, internal_cmd_tx, notices,
                   ctx, crashed, nstmt, dplan, dout, coord, allocated, relation, differential_demux,
                   timely_demux>>

(* SingleStmtAbandon panicking on the closed channel. *)
SingleStmtAbandonPanics ==
    /\ ~crashed
    /\ coord.gone
    /\ sst.pc \in {"inner", "await_commit"}
    /\ sst' = [sst EXCEPT !.pc = "abandoned"]
    /\ ctx' = [ctx EXCEPT !.handoff = "none"]
    /\ crashed' = TRUE
    /\ UNCHANGED <<txn, txn_ops, prepared, portals, session_vars_set, temp_items,
                   transient_id_counter, catalog_rev, internal_cmd_tx, notices,
                   nstmt, dplan, dout, coord, allocated, relation, differential_demux,
                   timely_demux>>

(* The task waits on sub_rx and the coordinator is gone: the channel is
   closed without a value and the task returns. *)
SingleStmtAbandon ==
    /\ ~crashed
    /\ coord.gone
    /\ sst.pc \in {"inner", "await_commit"}
    /\ sst' = [sst EXCEPT !.pc = "abandoned"]
    /\ ctx' = [ctx EXCEPT !.handoff = "none"]
    /\ UNCHANGED <<txn, txn_ops, prepared, portals, session_vars_set, temp_items,
                   transient_id_counter, catalog_rev, internal_cmd_tx, notices,
                   crashed, nstmt, dplan, dout, coord, allocated, relation, differential_demux,
                   timely_demux>>

NextShutdown ==
    \/ ~coord.gone /\ Next
    \/ coord.gone /\ (SingleStmtSend \/ ValidateAny)
    \/ CoordinatorGoesAway
    \/ SingleStmtPostCommitGone
    \/ SingleStmtAbandon

SpecShutdown == Init /\ [][NextShutdown]_vars

(***************************************************************************)
(* The coordinator serving this connection among others.  The statements   *)
(* of the other sessions arrive on the same queue; the coordinator takes   *)
(* one message at a time and runs its handler with `&mut self`; the        *)
(* spawned tasks run beside it.                                            *)
(***************************************************************************)
Others == 1..MaxOthers

OtherMsg(o) == [cmd |-> "Other", portal_name |-> o]

InQueue(m) == \E i \in 1..Len(internal_cmd_tx) : internal_cmd_tx[i] = m

(* A statement of another session arrives. *)
OtherArrives(o) ==
    /\ ~crashed
    /\ ~InQueue(OtherMsg(o))
    /\ o \notin coord.busy
    /\ catalog_rev < MaxRev
    /\ internal_cmd_tx' = Append(internal_cmd_tx, OtherMsg(o))
    /\ UNCHANGED <<txn, txn_ops, prepared, portals, session_vars_set, temp_items,
                   transient_id_counter, catalog_rev, notices,
                   ctx, crashed, nstmt, dplan, dout, sst, coord, allocated, relation, differential_demux,
                   timely_demux>>

(* OtherBegin entered while another plan is being sequenced. *)
OtherBeginWithoutExclusion(o) ==
    /\ ~crashed
    /\ internal_cmd_tx # <<>>
    /\ Head(internal_cmd_tx) = OtherMsg(o)
    /\ internal_cmd_tx' = Tail(internal_cmd_tx)
    /\ coord' = [coord EXCEPT !.busy = @ \cup {o}]
    /\ UNCHANGED <<txn, txn_ops, prepared, portals, session_vars_set, temp_items,
                   transient_id_counter, catalog_rev, notices,
                   ctx, crashed, nstmt, dplan, dout, sst, allocated, relation, differential_demux,
                   timely_demux>>

(* sequence_plan is entered for the statement of another session: it takes
   the coordinator by `&mut self`. *)
OtherBegin(o) ==
    /\ ~crashed
    /\ coord.busy = {}
    /\ internal_cmd_tx # <<>>
    /\ Head(internal_cmd_tx) = OtherMsg(o)
    /\ internal_cmd_tx' = Tail(internal_cmd_tx)
    /\ coord' = [coord EXCEPT !.busy = @ \cup {o}]
    /\ UNCHANGED <<txn, txn_ops, prepared, portals, session_vars_set, temp_items,
                   transient_id_counter, catalog_rev, notices,
                   ctx, crashed, nstmt, dplan, dout, sst, allocated, relation, differential_demux,
                   timely_demux>>

(* sequence_plan returns for the statement of another session, after a
   catalog transaction or without one. *)
OtherEnd(o, mutates) ==
    /\ ~crashed
    /\ o \in coord.busy
    /\ coord' = [coord EXCEPT !.busy = @ \ {o}]
    /\ catalog_rev' = IF mutates THEN catalog_rev + 1 ELSE catalog_rev
    /\ UNCHANGED <<txn, txn_ops, prepared, portals, session_vars_set, temp_items,
                   transient_id_counter, internal_cmd_tx, notices,
                   ctx, crashed, nstmt, dplan, dout, sst, allocated, relation, differential_demux,
                   timely_demux>>

(* The steps of this connection that run on the coordinator. *)
CoordinatorStep ==
    \/ ReceiveAny \/ SequenceAny \/ RoutineAny \/ ExecuteAny
    \/ SingleStmtStart
    \/ \E ok \in BOOLEAN : SingleStmtInnerRetires(ok)
    \/ \E ok \in BOOLEAN : CommitMessage(ok)
    \/ FailTransaction

(* The steps of the tasks spawned for this connection. *)
TaskStep == ValidateAny \/ SingleStmtPostCommit \/ SingleStmtSend

NextOthers ==
    \/ coord.busy = {} /\ CoordinatorStep
    \/ TaskStep
    \/ \E o \in Others : OtherArrives(o)
    \/ \E o \in Others : OtherBegin(o)
    \/ \E o \in Others, mutates \in BOOLEAN : OtherEnd(o, mutates)

(* The session has prepared statements, and is outside a transaction or
   has just started one. *)
InitOthers ==
    /\ txn \in {"Default", "Started"}
    /\ txn_ops = NoOps
    /\ prepared = Names
    /\ portals = {}
    /\ session_vars_set = FALSE
    /\ temp_items = FALSE
    /\ transient_id_counter = 1
    /\ catalog_rev = 0
    /\ internal_cmd_tx = <<>>
    /\ notices = <<>>
    /\ ctx = NoCtx
    /\ crashed = FALSE
    /\ nstmt = MaxStmts - 1
    /\ dplan = "none"
    /\ dout = NoOut
    /\ sst = NoSst
    /\ coord = NoCoord
    /\ allocated = <<>>
    /\ relation = <<>>
    /\ differential_demux = NoDifferentialDemux
    /\ timely_demux = NoTimelyDemux

SpecOthers == InitOthers /\ [][NextOthers]_vars

(***************************************************************************)
(* The coordinator with its id counter at, or one below, its maximum.      *)
(***************************************************************************)
InitIds ==
    /\ txn = "Default"
    /\ txn_ops = NoOps
    /\ prepared = {}
    /\ portals = {}
    /\ session_vars_set = FALSE
    /\ temp_items = FALSE
    /\ transient_id_counter \in {MaxId - 1, MaxId}
    /\ catalog_rev = 0
    /\ internal_cmd_tx = <<>>
    /\ notices = <<>>
    /\ ctx = NoCtx
    /\ crashed = FALSE
    /\ nstmt = 0
    /\ dplan = "none"
    /\ dout = NoOut
    /\ sst = NoSst
    /\ coord = NoCoord
    /\ allocated = <<>>
    /\ relation = <<>>
    /\ differential_demux = NoDifferentialDemux
    /\ timely_demux = NoTimelyDemux

SpecIds == InitIds /\ [][Next]_vars

(* The coordinator's loop and the spawned tasks are scheduled fairly. *)
FairSpec ==
    /\ Spec
    /\ WF_vars(SequenceAny \/ RoutineAny \/ ExecuteAny \/ ValidateAny \/ SingleStmtAny)

(***************************************************************************)
(* send_diffs and insert_constant called once on an input drawn in Init.   *)
(***************************************************************************)
DiffRows == {<<1>>, <<2>>}
Diffs == {-2, -1, 1, 2}
ConstRows == {<<NULL, NULL>>, <<NULL, 1>>, <<1, NULL>>, <<1, 1>>}

(* The sequences over S of length at most n. *)
SeqsUpTo(S, n) == UNION {[1..k -> S] : k \in 0..n}

(* RETURNING row sets with the maximum result size they are finished under. *)
Returnings ==
    {[returning |-> <<>>, max_result_size |-> 1],
     [returning |-> << <<(<<1>>), 1>> >>, max_result_size |-> 1],
     [returning |-> << <<(<<1>>), 2>> >>, max_result_size |-> 1],
     [returning |-> << <<(<<1>>), 1>>, <<(<<2>>), 1>> >>, max_result_size |-> 2]}

SendDiffsCalls ==
    {[call |-> "send_diffs", id |-> 1, updates |-> u, kind |-> k,
      returning |-> r.returning, max_result_size |-> r.max_result_size,
      pre |-> "ok", nullable |-> <<>>] :
        u \in SeqsUpTo(DiffRows \X Diffs, MaxRows),
        k \in {"Insert", "Delete", "Update"},
        r \in Returnings}

InsertConstantCalls ==
    {[call |-> "insert_constant", id |-> 1, updates |-> u, kind |-> "Insert",
      returning |-> <<>>, max_result_size |-> 1, pre |-> pre, nullable |-> n] :
        u \in SeqsUpTo(ConstRows \X {1}, MaxRows),
        pre \in {"ok"},
        n \in [1..2 -> BOOLEAN]}
    \cup
    {[call |-> "insert_constant", id |-> 1, updates |-> << <<(<<1, 1>>), 1>> >>,
      kind |-> "Insert", returning |-> <<>>, max_result_size |-> 1, pre |-> pre,
      nullable |-> <<TRUE, TRUE>>] :
        pre \in {"unknown_item", "desc_err", "not_const", "eval_err"}}

(* The transaction ops a session may hold when a write arrives. *)
OpsBefore ==
    {NoOps,
     [type |-> "Writes", writes |-> <<[id |-> 1, rows |-> << <<(<<1>>), 1>> >>]>>],
     [type |-> "Peeks", writes |-> <<>>]}

InitDiffs ==
    /\ txn = "InTransaction"
    /\ txn_ops \in OpsBefore
    /\ prepared = {}
    /\ portals = {}
    /\ session_vars_set = FALSE
    /\ temp_items = FALSE
    /\ transient_id_counter = 1
    /\ catalog_rev = 0
    /\ internal_cmd_tx = <<>>
    /\ notices = <<>>
    /\ ctx = NoCtx
    /\ crashed = FALSE
    /\ nstmt = 0
    /\ dplan \in SendDiffsCalls \cup InsertConstantCalls
    /\ dout = NoOut
    /\ sst = NoSst
    /\ coord = NoCoord
    /\ allocated = <<>>
    /\ relation = <<>>
    /\ differential_demux = NoDifferentialDemux
    /\ timely_demux = NoTimelyDemux

Called(r) ==
    /\ txn_ops' = r.ops
    /\ crashed' = r.panic
    /\ dout' = [called |-> TRUE, result |-> r.result, affected_rows |-> r.affected_rows,
                ops_before |-> txn_ops]
    /\ UNCHANGED <<txn, prepared, portals, session_vars_set, temp_items,
                   transient_id_counter, catalog_rev, internal_cmd_tx, notices,
                   ctx, nstmt, dplan, sst, coord, allocated, relation, differential_demux,
                   timely_demux>>

CallSendDiffs ==
    /\ ~dout.called
    /\ dplan.call = "send_diffs"
    /\ Called(SendDiffs(txn_ops, dplan))

CallInsertConstant ==
    /\ ~dout.called
    /\ dplan.call = "insert_constant"
    /\ Called(InsertConstant(txn_ops, dplan))

NextDiffs == CallSendDiffs \/ CallInsertConstant

SpecDiffs == InitDiffs /\ [][NextDiffs]_vars

(***************************************************************************)
(* Properties of send_diffs and insert_constant (under SpecDiffs).         *)
(***************************************************************************)
SendDiffsCalled == dout.called /\ dplan.call = "send_diffs"

HasNegative(updates) == \E i \in 1..Len(updates) : updates[i][2] < 0

(* The write op the call buffered, when the session took it. *)
Buffered == txn_ops.writes[Len(txn_ops.writes)]

OpsAccepted == dout.ops_before.type # "Peeks"

(* The sum over the distinct rows of the absolute value of the row's net diff. *)
RECURSIVE NetAbsOver(_, _)
NetAbsOver(rows, updates) ==
    IF rows = {} THEN 0
    ELSE LET r == CHOOSE r \in rows : TRUE
         IN Abs(DiffOf(r, updates)) + NetAbsOver(rows \ {r}, updates)

NetAbs(updates) == NetAbsOver({updates[i][1] : i \in 1..Len(updates)}, updates)

CountResponded == dout.result.ok /\ dplan.returning = <<>>

(* C7: when no multiplicity of the change list is negative, the
   affected-row count of send_diffs is the plain sum of the multiplicities,
   the change list is buffered as it came (duplicate rows are not merged),
   and Inserted / Deleted carry that sum. *)
C7_NonNegativeIsPlainSum ==
    (SendDiffsCalled /\ ~HasNegative(dplan.updates)) =>
        /\ dout.affected_rows = SumDiffs(dplan.updates)
        /\ OpsAccepted => Buffered.rows = dplan.updates
        /\ (CountResponded /\ dplan.kind \in {"Insert", "Delete"})
              => dout.result.n = SumDiffs(dplan.updates)

C7_Witness ==
    /\ SendDiffsCalled
    /\ dplan.updates = << <<(<<1>>), 1>>, <<(<<1>>), 1>> >>
    /\ dout.result = Resp(TRUE, "Inserted", 2, <<>>)

(* C8 as stated: for every mutation kind, a change list with a negative
   multiplicity reports the sum of the absolute values of the consolidated
   multiplicities. *)
C8_Original ==
    (SendDiffsCalled /\ HasNegative(dplan.updates) /\ CountResponded)
        => dout.result.n = NetAbs(dplan.updates)

(* C8 amended: with a negative multiplicity in the change list, the list
   is consolidated first (one entry per row with its net diff, no zero
   entry), the affected-row count is the sum of the absolute values of the
   consolidated multiplicities, Inserted and Deleted carry that count and
   Updated carries half of it, rounded down. *)
C8_ConsolidatedAbsSum ==
    (SendDiffsCalled /\ HasNegative(dplan.updates)) =>
        /\ dout.affected_rows = NetAbs(dplan.updates)
        /\ OpsAccepted =>
              /\ \A i \in 1..Len(Buffered.rows) :
                    /\ Buffered.rows[i][2] # 0
                    /\ Buffered.rows[i][2] = DiffOf(Buffered.rows[i][1], dplan.updates)
                    /\ \A j \in 1..Len(Buffered.rows) :
                          Buffered.rows[i][1] = Buffered.rows[j][1] => i = j
              /\ \A k \in 1..Len(dplan.updates) :
                    DiffOf(dplan.updates[k][1], dplan.updates) # 0
                       => \E i \in 1..Len(Buffered.rows) :
                             Buffered.rows[i][1] = dplan.updates[k][1]
        /\ CountResponded =>
              dout.result.n = IF dplan.kind = "Update"
                              THEN NetAbs(dplan.updates) \div 2
                              ELSE NetAbs(dplan.updates)

C8_Witness ==
    /\ SendDiffsCalled
    /\ dplan.updates = << <<(<<1>>), 1>>, <<(<<1>>), -1>>, <<(<<2>>), 1>> >>
    /\ dout.result = Resp(TRUE, "Inserted", 1, <<>>)

InsertConstantCalled == dout.called /\ dplan.call = "insert_constant"

(* Row i of the constant holds NULL in the not-nullable column k. *)
Violates(i, k) == dplan.updates[i][1][k] = NULL /\ ~dplan.nullable[k]

SomeViolation ==
    \E i \in 1..Len(dplan.updates), k \in 1..2 : Violates(i, k)

(* C9: insert_constant checks every datum of every row before anything is
   buffered: when some row violates a not-null constraint the call fails
   with the constraint error naming the violated column (the first one in
   row-major order) and the session's buffered writes are what they were,
   the valid rows before the violating one included; with no violation the
   rows go to send_diffs. *)
C9_ValidatedBeforeBuffered ==
    (InsertConstantCalled /\ dplan.pre = "ok") =>
        /\ SomeViolation =>
              /\ ~dout.result.ok
              /\ dout.result.val = "NotNullViolation"
              /\ \E i \in 1..Len(dplan.updates) :
                    /\ Violates(i, dout.result.n)
                    /\ \A j \in 1..(i - 1), k \in 1..2 : ~Violates(j, k)
                    /\ \A k \in 1..(dout.result.n - 1) : ~Violates(i, k)
              /\ txn_ops = dout.ops_before
        /\ ~SomeViolation =>
              /\ dout.result.val # "NotNullViolation"
              /\ OpsAccepted => Buffered.rows = dplan.updates

C9_Witness ==
    /\ InsertConstantCalled
    /\ dplan.updates = << <<(<<1, 1>>), 1>>, <<(<<1, NULL>>), 1>> >>
    /\ dplan.nullable = <<TRUE, FALSE>>
    /\ dout.result = Resp(FALSE, "NotNullViolation", 2, <<>>)
    /\ dout.ops_before.type = "Writes"
    /\ txn_ops = dout.ops_before

(* The rows RETURNING asks for: the sum of the counts, and their size. *)
RECURSIVE ReturnedCount(_)
ReturnedCount(returning) ==
    IF returning = <<>> THEN 0 ELSE returning[1][2] + ReturnedCount(Tail(returning))

RECURSIVE ReturnedSize(_)
ReturnedSize(returning) ==
    IF returning = <<>> THEN 0
    ELSE returning[1][2] * Len(returning[1][1]) + ReturnedSize(Tail(returning))

(* C10: with a non-empty RETURNING set, send_diffs never answers with a
   row count: once the session has taken the write it answers with an
   immediate row response holding every returned row, or, when the rows
   exceed the maximum result size, with the ResultSize error. *)
C10_ReturningRowsOrResultSize ==
    (SendDiffsCalled /\ dplan.returning # <<>>) =>
        /\ dout.result.val \notin {"Inserted", "Deleted", "Updated"}
        /\ OpsAccepted =>
              IF ReturnedSize(dplan.returning) > dplan.max_result_size
              THEN dout.result = Resp(FALSE, "ResultSize", 0, <<>>)
              ELSE /\ dout.result.ok
                   /\ dout.result.val = "SendingRowsImmediate"
                   /\ Len(dout.result.rows) = ReturnedCount(dplan.returning)
                   /\ \A i \in 1..Len(dplan.returning) :
                         \E j \in 1..Len(dout.result.rows) :
                            dout.result.rows[j] = dplan.returning[i][1]

C10_Witness ==
    /\ SendDiffsCalled
    /\ dplan.returning = << <<(<<1>>), 2>> >>
    /\ dplan.max_result_size = 1
    /\ dout.result = Resp(FALSE, "ResultSize", 0, <<>>)

(***************************************************************************)
(* Properties of sequence_plan and its continuations (under Spec and       *)
(* FairSpec).                                                              *)
(***************************************************************************)
Sequenced == ctx.steps # <<>>

(* A continuation still holds the context. *)
HeldByContinuation ==
    \/ ctx.handoff \in {"routine", "task", "internal_cmd", "single_stmt"}
    \/ \E i \in 1..Len(internal_cmd_tx) : internal_cmd_tx[i].cmd = "Execute"

(* C1: a context receives at most one terminal response, and once it has
   received it no continuation holds the context any more, so none can
   retire it again: whatever the plan kind and the gate's answers. *)
C1_AtMostOneResponse ==
    /\ Len(ctx.sent) <= 1
    /\ ctx.sent # <<>> => ~HeldByContinuation

C1_Witness ==
    /\ ctx.kind = "Execute"
    /\ ctx.dispatched
    /\ ctx.sent = <<Ok("executed")>>
    /\ internal_cmd_tx = <<>>

Awaiting == ctx.handoff = "inbound"

(* C2 as stated: every statement handed to sequence_plan eventually has
   exactly one response, whatever its plan kind. *)
C2_Original == Awaiting ~> (Len(ctx.sent) = 1)

(* C2 amended: every statement handed to sequence_plan eventually has
   exactly one response, unless the coordinator panics; it panics only in
   the match, on an unpurified AlterSource plan or on a CreateSources plan
   with resolved ids, and then that context gets no response. *)
C2_OneResponseUnlessPanic ==
    /\ [](Len(ctx.sent) <= 1)
    /\ [](crashed => /\ ctx.kind \in {"AlterSource", "CreateSources"}
                     /\ ctx.dispatched
                     /\ ctx.sent = <<>>)
    /\ Awaiting ~> (crashed \/ Len(ctx.sent) = 1)

C2_Witness ==
    /\ ctx.kind = "Select"
    /\ ctx.dispatched
    /\ ctx.handoff = "none"
    /\ Len(ctx.sent) = 1

IsGatePrefix(steps) == \E n \in 1..Len(GateOrder) : steps = SubSeq(GateOrder, 1, n)

(* C4: the gate's steps run in the order user_privilege_hack,
   check_cluster_restrictions, resolve_target_cluster, check_plan; the first
   check that answers with an error is the last step run, the context is
   retired with that error and the match is not entered; when every check
   passes all four steps have run and the match is entered. *)
C4_GateOrderShortCircuit ==
    Sequenced =>
        /\ IsGatePrefix(ctx.steps)
        /\ ctx.failed_check # "none" =>
              /\ ctx.steps[Len(ctx.steps)] = ctx.failed_check
              /\ ctx.sent = <<Err(ctx.failed_check)>>
              /\ ~ctx.dispatched
              /\ ctx.handoff = "none"
        /\ ctx.failed_check = "none" => ctx.steps = GateOrder /\ ctx.dispatched

C4_Witness ==
    /\ ctx.failed_check = "check_cluster_restrictions"
    /\ ctx.steps = SubSeq(GateOrder, 1, 2)
    /\ ctx.sent = <<Err("check_cluster_restrictions")>>

(* C5: a run of sequence_plan in which a check answers with an error
   changes nothing but the context, which receives that error: the
   transaction state, the buffered ops, the prepared statements, the
   portals, the session variables, the temporary items, the notices, the
   transient id counter, the catalog and the internal queue stay as they
   were, and the coordinator does not panic. *)
C5_FailedCheckChangesNothing ==
    [][(Awaiting /\ ctx'.failed_check # "none") =>
          /\ UNCHANGED <<txn, txn_ops, prepared, portals, session_vars_set,
                         temp_items, notices, transient_id_counter, catalog_rev,
                         internal_cmd_tx, crashed>>
          /\ ctx'.sent = <<Err(ctx'.failed_check)>>]_vars

C5_Witness ==
    /\ ctx.failed_check = "check_plan"
    /\ ctx.kind = "DiscardAll"
    /\ ctx.sent = <<Err("check_plan")>>
    /\ txn = "Started"

(* C6 as stated: every error that arises in a gate step or in a handler is
   the statement's response, or the coordinator has panicked. *)
C6_Original ==
    \A e \in ctx.raised : crashed \/ ctx.sent = <<Err(e)>>

(* C6 amended: every error that arises in user_privilege_hack,
   check_cluster_restrictions, check_plan or in a handler is the
   statement's response, or the coordinator has panicked; an error of
   resolve_target_cluster is dropped and sequencing goes on without a
   target cluster id. *)
C6_NoErrorSwallowedButResolve ==
    /\ \A e \in ctx.raised \ {"resolve_target_cluster"} :
          crashed \/ ctx.sent = <<Err(e)>>
    /\ (Sequenced /\ "resolve_target_cluster" \in ctx.raised) =>
          /\ ctx.steps = GateOrder
          /\ ctx.sent # <<Err("resolve_target_cluster")>>

C6_Witness ==
    /\ ctx.kind = "CreateTable"
    /\ ctx.raised = {"resolve_target_cluster", "handler"}
    /\ ctx.sent = <<Err("handler")>>
(***************************************************************************)
(* Properties of the session's transaction state machine and of its        *)
(* prepared statements and portals (under SpecSession).                    *)
(***************************************************************************)
InTxnStates == {"Started", "InTransaction", "InTransactionImplicit"}

(* The step is sequence_plan entering the match on a plan of that kind. *)
Sequencing(kind) == Awaiting /\ ctx.kind = kind /\ ctx'.dispatched

NoticeCount(ns, n) == Cardinality({i \in DOMAIN ns : ns[i] = n})

(* C11 as stated: StartTransaction sequenced in Started, InTransaction or
   implicit InTransaction succeeds, leaves the session in one of these
   states and adds exactly one ExistingTransactionInProgress notice;
   sequenced in Default it adds none. *)
C11_Original ==
    [][Sequencing("StartTransaction") =>
          /\ txn \in InTxnStates =>
                /\ ctx'.sent = <<Ok("StartedTransaction")>>
                /\ txn' \in InTxnStates
                /\ NoticeCount(notices', "ExistingTransactionInProgress") = 1
          /\ txn = "Default" =>
                NoticeCount(notices', "ExistingTransactionInProgress") = 0]_vars

(* C11 amended: StartTransaction sequenced in Started, InTransaction or
   implicit InTransaction succeeds and leaves the session in one of these
   states; it adds exactly one ExistingTransactionInProgress notice when
   the session is in (explicit) InTransaction, and none when it is in
   Started, in implicit InTransaction or in Default; from Default the
   session goes to Started. *)
C11_NoticeOnlyInTransaction ==
    [][Sequencing("StartTransaction") =>
          /\ ctx'.sent = <<Ok("StartedTransaction")>>
          /\ txn \in InTxnStates => txn' \in InTxnStates
          /\ txn = "Default" => txn' = "Started"
          /\ NoticeCount(notices', "ExistingTransactionInProgress")
                = (IF txn = "InTransaction" THEN 1 ELSE 0)
          /\ Len(notices') = NoticeCount(notices', "ExistingTransactionInProgress")]_vars

C11_Witness ==
    /\ ctx.kind = "StartTransaction"
    /\ ctx.dispatched
    /\ ctx.sent = <<Ok("StartedTransaction")>>
    /\ txn = "InTransaction"
    /\ notices = <<"ExistingTransactionInProgress">>

(* The step is the end-transaction routine answering the statement. *)
EndTransactionRetiring ==
    /\ ctx.kind \in EndTransactionKinds
    /\ ctx.handoff = "routine"
    /\ ctx'.handoff = "none"

(* C12: CommitTransaction sequenced while the session is in Default is
   handed to the end-transaction routine, which rejects it: the client
   receives an error and no success, and the session stays in Default. *)
C12_CommitInDefaultRejected ==
    [][(ctx.kind = "CommitTransaction" /\ txn = "Default"
        /\ ctx.handoff \in {"inbound", "routine"}) =>
          /\ txn' = "Default"
          /\ UNCHANGED txn_ops
          /\ ctx'.sent # <<>> => Len(ctx'.sent) = 1 /\ ~ctx'.sent[1].ok
          /\ EndTransactionRetiring =>
                ctx'.sent = <<Err("NoTransactionInProgress")>>]_vars

C12_Witness ==
    /\ ctx.kind = "CommitTransaction"
    /\ ctx.dispatched
    /\ ctx.calls = <<Call("sequence_end_transaction", "Commit")>>
    /\ ctx.sent = <<Err("NoTransactionInProgress")>>
    /\ txn = "Default"

(* C13: the CommitTransaction | AbortTransaction arm adds the
   ExplicitTransactionControlInImplicitTransaction notice exactly when the
   session's transaction is implicit and the plan's transaction type is
   not; with or without the notice it answers nothing itself, leaves the
   transaction as it is and calls sequence_end_transaction with Commit for
   CommitTransaction and Rollback for AbortTransaction; when that routine
   answers, the session is in Default. *)
C13_NoticeThenEndTransaction ==
    [][/\ \A k \in EndTransactionKinds : Sequencing(k) =>
             /\ notices' = (IF IsImplicit(txn) /\ ~ctx.implicit
                             THEN <<"ExplicitTransactionControlInImplicitTransaction">>
                             ELSE <<>>)
             /\ ctx'.calls = <<Call("sequence_end_transaction",
                                     IF k = "CommitTransaction" THEN "Commit"
                                     ELSE "Rollback")>>
             /\ ctx'.handoff = "routine"
             /\ ctx'.sent = <<>>
             /\ UNCHANGED <<txn, txn_ops>>
       /\ EndTransactionRetiring =>
             /\ txn' = "Default"
             /\ txn_ops' = (IF txn = "Default" THEN txn_ops ELSE NoOps)
             /\ Len(ctx'.sent) = 1]_vars

C13_Witness ==
    /\ ctx.kind = "AbortTransaction"
    /\ ~ctx.implicit
    /\ ctx.calls = <<Call("sequence_end_transaction", "Rollback")>>
    /\ notices = <<"ExplicitTransactionControlInImplicitTransaction">>
    /\ ctx.sent = <<Ok("TransactionRolledBack")>>
    /\ txn = "Default"

(* C14: DiscardAll sequenced in Started answers DiscardedAll after calling
   clear_transaction, drop_temp_items and reset, in that order: nothing is
   buffered, the connection has no temporary item (the catalog changed iff
   it had one), the session variables are at their defaults and the
   session is in Default; the prepared statements and portals stay. *)
C14_DiscardAllInStarted ==
    [][(Sequencing("DiscardAll") /\ txn = "Started") =>
          /\ ctx'.sent = <<Ok("DiscardedAll")>>
          /\ ctx'.calls = <<Call("clear_transaction", 0), Call("drop_temp_items", 0),
                            Call("reset", 0)>>
          /\ txn' = "Default"
          /\ txn_ops' = NoOps
          /\ temp_items' = FALSE
          /\ catalog_rev' = (IF temp_items THEN catalog_rev + 1 ELSE catalog_rev)
          /\ session_vars_set' = FALSE
          /\ UNCHANGED <<prepared, portals>>]_vars

C14_Witness ==
    /\ ctx.kind = "DiscardAll"
    /\ ctx.sent = <<Ok("DiscardedAll")>>
    /\ Len(ctx.calls) = 3
    /\ txn = "Default"
    /\ catalog_rev = 2
    /\ ~temp_items
    /\ ~session_vars_set

(* C15: DiscardAll sequenced in a transaction state other than Started
   answers OperationProhibitsTransaction("DISCARD ALL") and calls nothing:
   the transaction, the buffered ops, the temporary items, the catalog, the
   session variables, the prepared statements and the portals stay as they
   were; the arm does the same on a session whose transaction has failed. *)
C15_DiscardAllProhibited ==
    /\ [][(Sequencing("DiscardAll") /\ txn # "Started") =>
             /\ ctx'.sent = <<Err("OperationProhibitsTransaction:DISCARD ALL")>>
             /\ ctx'.calls = <<>>
             /\ UNCHANGED <<txn, txn_ops, temp_items, catalog_rev, session_vars_set,
                            prepared, portals>>]_vars
    /\ [](\A t \in TxnStates \ {"Started"} :
             LET st == [State EXCEPT !.txn = t]
             IN DiscardAllArm(st, ctx, CHOOSE in \in Inputs : TRUE)
                   = Retire(st, Err("OperationProhibitsTransaction:DISCARD ALL")))

C15_Witness ==
    /\ ctx.kind = "DiscardAll"
    /\ ctx.dispatched
    /\ ctx.sent = <<Err("OperationProhibitsTransaction:DISCARD ALL")>>
    /\ txn = "InTransaction"
    /\ txn_ops = PeekOps
    /\ temp_items
    /\ session_vars_set

(***************************************************************************)
(* Properties of a failed transaction (under SpecTxn).                     *)
(***************************************************************************)

(* The step takes the client's next statement. *)
Receiving == nstmt' = nstmt + 1

(* C16: when the next statement is taken after a statement that failed
   inside an explicit transaction, the session is in Failed; in Failed a
   statement that does not end the transaction is answered with an error
   and is not sequenced; the session leaves Failed only when the
   end-transaction routine answers a CommitTransaction or an
   AbortTransaction, it is then in Default, and the transaction was rolled
   back, never committed; and no arm of sequence_plan for another plan kind
   would take a session out of Failed. *)
C16_FailedUntilEndTransaction ==
    /\ [][(Receiving /\ ctx.sent # <<>> /\ ~ctx.sent[1].ok) =>
             txn \notin {"Started", "InTransaction"}]_vars
    /\ [][(Receiving /\ txn = "Failed" /\ ctx'.kind \notin EndTransactionKinds) =>
             /\ ctx'.sent = <<Err("TransactionAborted")>>
             /\ ctx'.handoff = "none"
             /\ txn' = "Failed"]_vars
    /\ [][(txn = "Failed" /\ txn' # "Failed") =>
             /\ EndTransactionRetiring
             /\ txn' = "Default"
             /\ ctx'.sent # <<Ok("TransactionCommitted")>>]_vars
    /\ [](txn = "Failed" =>
             \A p \in Plans : \A ok \in BOOLEAN :
                LET in == [CHOOSE i \in Inputs : i.gate.hack /\ i.gate.restrict
                                                /\ i.gate.rbac /\ i.resolved_empty
                           EXCEPT !.ok = ok]
                    d == Dispatch(State, [NoCtx EXCEPT !.kind = p.kind, !.name = p.name,
                                                       !.implicit = p.implicit], in)
                IN d.st.txn = "Failed")

C16_Witness ==
    /\ txn = "Failed"
    /\ nstmt = 2
    /\ ctx.kind = "Prepare"
    /\ ctx.sent = <<Err("TransactionAborted")>>
    /\ ~ctx.dispatched

(***************************************************************************)
(* Properties of the prepared statements and the portals (under            *)
(* SpecSession).                                                           *)
(***************************************************************************)

(* The arm p of the match run on the session as it is, in transaction
   state t. *)
ArmIn(t, kind, name) ==
    Dispatch([State EXCEPT !.txn = t],
             [NoCtx EXCEPT !.kind = kind, !.name = name],
             CHOOSE in \in Inputs : in.ok /\ in.pre_ok /\ in.resolved_empty)

(* C17: Prepare under a name that is registered answers
   PreparedStatementExists with that name and registers nothing; under a
   name that is not registered, whatever the other names registered, it
   answers Prepare and registers the name with the catalog's current
   transient revision; in both cases the other prepared statements, the
   portals and the transaction stay as they were. *)
C17_PrepareIffNotRegistered ==
    [][Sequencing("Prepare") =>
          /\ IF ctx.name \in prepared
             THEN /\ ctx'.sent = <<NamedErr("PreparedStatementExists", ctx.name)>>
                  /\ ctx'.calls = <<>>
                  /\ UNCHANGED prepared
             ELSE /\ ctx'.sent = <<Ok("Prepare")>>
                  /\ ctx'.calls = <<Call("set_prepared_statement", catalog_rev)>>
                  /\ prepared' = prepared \cup {ctx.name}
          /\ UNCHANGED <<portals, txn, txn_ops, catalog_rev>>]_vars

C17_Witness ==
    /\ ctx.kind = "Prepare"
    /\ ctx.name = 1
    /\ ctx.sent = <<NamedErr("PreparedStatementExists", 1)>>
    /\ prepared = {1, 2}

(* C18: Deallocate without a name answers Deallocate{all: true} and leaves
   no prepared statement, whatever the prepared statements before (none
   included) and whatever the transaction state; the portals and the
   transaction stay as they were. *)
C18_DeallocateAll ==
    /\ [][(Sequencing("Deallocate") /\ ctx.name = 0) =>
             /\ ctx'.sent = <<Ok("Deallocate:all")>>
             /\ prepared' = {}
             /\ UNCHANGED <<portals, txn, txn_ops>>]_vars
    /\ [](\A t \in TxnStates :
             LET d == ArmIn(t, "Deallocate", 0)
             IN /\ d.retire = <<Ok("Deallocate:all")>>
                /\ d.st = [State EXCEPT !.txn = t, !.prepared = {}])

C18_Witness ==
    /\ ctx.kind = "Deallocate"
    /\ ctx.name = 0
    /\ ctx.sent = <<Ok("Deallocate:all")>>
    /\ prepared = {}
    /\ portals = {1, 2}
    /\ txn = "InTransaction"

(* C19: Close on a name that is not a portal answers UnknownCursor with
   that name, Deallocate on a name that is not a prepared statement answers
   UnknownPreparedStatement with that name, Execute on a name that is not
   registered answers the error of sequence_execute; in these cases the
   portals, the prepared statements and the internal queue stay as they
   were.  Close on a portal removes that portal and no other, Deallocate on
   a prepared statement removes that statement and no other. *)
C19_UnknownNameErrors ==
    [][/\ Sequencing("Close") =>
             /\ IF ctx.name \in portals
                THEN /\ ctx'.sent = <<Ok("ClosedCursor")>>
                     /\ portals' = portals \ {ctx.name}
                ELSE /\ ctx'.sent = <<NamedErr("UnknownCursor", ctx.name)>>
                     /\ UNCHANGED portals
             /\ UNCHANGED <<prepared, internal_cmd_tx>>
       /\ (Sequencing("Deallocate") /\ ctx.name # 0) =>
             /\ IF ctx.name \in prepared
                THEN /\ ctx'.sent = <<Ok("Deallocate")>>
                     /\ prepared' = prepared \ {ctx.name}
                ELSE /\ ctx'.sent = <<NamedErr("UnknownPreparedStatement", ctx.name)>>
                     /\ UNCHANGED prepared
             /\ UNCHANGED <<portals, internal_cmd_tx>>
       /\ (Sequencing("Execute") /\ ctx.name \notin prepared) =>
             /\ ctx'.sent = <<Err("sequence_execute")>>
             /\ ctx'.handoff = "none"
             /\ UNCHANGED <<portals, prepared, internal_cmd_tx>>]_vars

C19_Witness ==
    /\ ctx.kind = "Close"
    /\ ctx.name = 1
    /\ ctx.sent = <<Ok("ClosedCursor")>>
    /\ portals = {2}
    /\ prepared = {1}

(***************************************************************************)
(* Properties of the single-statement implicit-transaction protocol        *)
(* (under Spec).                                                           *)
(***************************************************************************)

(* The step is the protocol's task sending the client its response. *)
SingleStmtSending == sst.pc = "got_commit" /\ sst'.pc = "none" /\ ~crashed'

(* C20: the response the task of the single-statement protocol sends is the
   context's only one; it is the statement's error, as the statement
   returned it, when the statement failed, whether the commit succeeded or
   failed; it is the commit's result, success or error, when the statement
   succeeded, and then it is not the statement's own result. *)
C20_ForwardedResponse ==
    [][SingleStmtSending =>
          /\ ctx.sent = <<>>
          /\ Len(ctx'.sent) = 1
          /\ ~sst.result.ok => ctx'.sent[1] = sst.result
          /\ sst.result.ok => ctx'.sent[1] = sst.commit /\ ctx'.sent[1] # sst.result]_vars

C20_Witness ==
    /\ ctx.kind = "Execute"
    /\ sst.pc = "none"
    /\ sst.result = Err("inner")
    /\ sst.commit = Ok("TransactionCommitted")
    /\ ctx.sent = <<Err("inner")>>

(***************************************************************************)
(* The single-statement protocol when the statement fails.                 *)
(***************************************************************************)
CommitMsg == [cmd |-> "Commit", portal_name |-> 0]

(* The task leaves got_result: it has acted on the statement's response. *)
SingleStmtPosting == sst.pc = "got_result" /\ sst'.pc # "got_result"

(* C21 as stated: when the statement fails, no commit of the session's
   transaction is issued to the coordinator or processed by it. *)
C21_Original ==
    [][SingleStmtSending /\ ~sst.result.ok
          => sst.posted = 0 /\ sst.processed = 0]_vars

(* C21: when the statement fails, the task still posts the synthetic commit,
   once, and the coordinator processes it, once, which puts the session back
   in Default; the client is sent the statement's own error and nothing of
   the commit's outcome. *)
C21_FailedStatementStillCommits ==
    /\ [][SingleStmtPosting /\ ~sst.result.ok
             => /\ internal_cmd_tx' = Append(internal_cmd_tx, CommitMsg)
                /\ sst'.posted = 1
                /\ sst'.processed = 0]_vars
    /\ [][SingleStmtSending /\ ~sst.result.ok
             => /\ sst.posted = 1
                /\ sst.processed = 1
                /\ txn = "Default"
                /\ ctx'.sent = <<sst.result>>]_vars

C21_Witness ==
    /\ sst.pc = "none"
    /\ ~sst.result.ok
    /\ sst.posted = 1
    /\ sst.processed = 1
    /\ ctx.sent = <<Err("inner")>>
    /\ sst.commit = Ok("TransactionCommitted")

(***************************************************************************)
(* The single-statement protocol as BEGIN; <stmt>; COMMIT.                 *)
(***************************************************************************)

(* C22: the protocol is entered only with the session in Default and puts
   it in the single-statement implicit transaction, where it stays while the
   statement runs; the synthetic commit is posted only once the statement's
   response has been received; the client is answered only once the
   commit's response has been received; and the session handed back with
   the response is in Default, so the task's assertion never fails. *)
C22_BeginStmtCommit ==
    /\ [][sst.pc = "none" /\ sst'.pc = "inner"
             => txn = "Default" /\ txn' = "InTransactionImplicit"]_vars
    /\ [](sst.pc \in {"inner", "got_result"} => txn = "InTransactionImplicit")
    /\ [][sst'.posted # sst.posted /\ sst'.pc # "inner"
             => sst.pc = "got_result" /\ sst'.posted = 1]_vars
    /\ [][ctx.handoff = "single_stmt" /\ ctx'.sent # ctx.sent
             => /\ sst.pc = "got_commit"
                /\ sst.posted = 1
                /\ sst.processed = 1
                /\ txn' = "Default"]_vars
    /\ [][sst.pc = "got_commit" /\ sst'.pc = "none"
             => ~crashed' /\ txn' = "Default" /\ Len(ctx'.sent) = 1]_vars

C22_Witness ==
    /\ ctx.kind = "Execute"
    /\ sst.pc = "none"
    /\ sst.result.ok
    /\ sst.processed = 1
    /\ txn = "Default"
    /\ ctx.handoff = "none"
    /\ Len(ctx.sent) = 1
    /\ ~crashed

(***************************************************************************)
(* The single-statement protocol when the coordinator goes away.           *)
(***************************************************************************)
SingleStmtAbandoning == sst.pc # "abandoned" /\ sst'.pc = "abandoned"

(* C23: when the coordinator goes away while the task waits for the
   statement's response or for the commit's response, or when posting the
   commit fails, the task ends: it sends the client nothing, it does not
   panic, and nothing is sent afterwards. *)
C23_AbandonsSilently ==
    /\ [][SingleStmtAbandoning
             => coord.gone /\ ctx'.sent = <<>> /\ ~crashed']_vars
    /\ [][coord.gone /\ sst'.posted # sst.posted
             => /\ internal_cmd_tx' = internal_cmd_tx
                /\ sst'.pc = "await_commit"
                /\ ctx'.sent = <<>>
                /\ ~crashed']_vars
    /\ [](sst.pc = "abandoned" => ctx.sent = <<>> /\ ~crashed)
    /\ [](coord.gone /\ sst.pc \in {"inner", "await_commit"}
             => ENABLED SingleStmtAbandon)

C23_Witness ==
    /\ coord.gone
    /\ sst.pc = "abandoned"
    /\ sst.posted = 1
    /\ internal_cmd_tx = <<>>
    /\ ctx.sent = <<>>
    /\ ~crashed

(***************************************************************************)
(* The coordinator among several sessions.                                 *)
(***************************************************************************)

(* A spawned task holds this connection's context, or its synthetic commit
   waits to be processed. *)
TaskPending ==
    \/ ctx.handoff = "task"
    \/ ctx.handoff = "single_stmt" /\ sst.pc \in {"got_result", "await_commit", "got_commit"}

(* The queue changes only by a message posted at its end or by its first
   message taken. *)
QueueStep ==
    \/ /\ Len(internal_cmd_tx') = Len(internal_cmd_tx) + 1
       /\ SubSeq(internal_cmd_tx', 1, Len(internal_cmd_tx)) = internal_cmd_tx
    \/ /\ internal_cmd_tx # <<>>
       /\ internal_cmd_tx' = Tail(internal_cmd_tx)

(* C24: while a spawned task is pending, the coordinator stays free to
   sequence the statements of other sessions: one that is first in the queue
   can be sequenced, and new ones can arrive; the messages of the queue,
   the task's synthetic commit among them, are taken from its head in the
   order they were posted at its end. *)
C24_CoordinatorDoesNotWait ==
    /\ [](TaskPending /\ ~crashed /\ coord.busy = {} /\ internal_cmd_tx # <<>>
             /\ Head(internal_cmd_tx).cmd = "Other"
             => ENABLED (\E o \in Others : OtherBegin(o)))
    /\ [][internal_cmd_tx' # internal_cmd_tx => QueueStep]_vars
    /\ [][sst'.processed # sst.processed /\ sst'.pc = "got_commit"
             => /\ Head(internal_cmd_tx) = CommitMsg
                /\ internal_cmd_tx' = Tail(internal_cmd_tx)]_vars

(* A statement of another session is being sequenced, having been taken
   from the queue ahead of the synthetic commit the task posted behind it. *)
C24_Witness ==
    /\ sst.pc = "await_commit"
    /\ internal_cmd_tx = <<OtherMsg(2), CommitMsg>>
    /\ coord.busy = {1}
    /\ ctx.handoff = "single_stmt"
    /\ ctx.sent = <<>>

CatalogState == <<catalog_rev, transient_id_counter, temp_items>>

(* C25: at most one plan is being sequenced at any moment; this
   connection's statement is sequenced, and the catalog, the id counter and
   the temporary items change on its behalf, only while no other plan is
   being sequenced; and while another plan is being sequenced, no step of a
   spawned task or of anything else changes them. *)
C25_OnePlanAtATime ==
    /\ [](Cardinality(coord.busy) <= 1)
    /\ [][ctx.handoff = "inbound" /\ ctx'.handoff # "inbound" => coord.busy = {}]_vars
    /\ [][CatalogState' # CatalogState
             => \/ coord.busy = {} /\ coord'.busy = {}
                   /\ (ctx.handoff \in {"inbound", "routine"} \/ sst.pc = "await_commit")
                \/ coord.busy # {} /\ coord'.busy = {} /\ UNCHANGED <<ctx, sst>>]_vars
    /\ [][coord.busy # {} /\ coord'.busy = coord.busy
             => CatalogState' = CatalogState]_vars

(* A plan of another session is being sequenced while a second one waits in
   the queue and a task spawned for this connection is pending. *)
C25_Witness ==
    /\ coord.busy = {1}
    /\ internal_cmd_tx # <<>>
    /\ Head(internal_cmd_tx) = OtherMsg(2)
    /\ ctx.handoff = "task"
    /\ catalog_rev > 0

(***************************************************************************)
(* What the spawned tasks do.                                              *)
(***************************************************************************)
ValidateTaskActing == ctx.handoff = "task" /\ ctx' # ctx

SingleStmtTaskActing == sst.pc \in {"got_result", "got_commit"} /\ sst'.pc # sst.pc

SharedState ==
    <<txn, txn_ops, prepared, portals, session_vars_set, temp_items,
      transient_id_counter, catalog_rev, notices>>

(* C26 as stated: a spawned task hands its result back only by posting a
   message to the coordinator, so no step of a task sends the client
   anything. *)
C26_Original ==
    [][ValidateTaskActing \/ SingleStmtTaskActing => ctx'.sent = ctx.sent]_vars

(* C26: no step of a spawned task changes the catalog or the session.  The
   validate_connection task posts nothing: it retires the context it holds,
   which sends the client its response.  The single-statement task posts
   the one Command::Commit to the coordinator's queue, and sends the client
   its response itself once it has the commit's response. *)
C26_TasksLeaveSharedState ==
    /\ [][ValidateTaskActing \/ SingleStmtTaskActing
             => SharedState' = SharedState /\ ~crashed']_vars
    /\ [][ValidateTaskActing
             => /\ internal_cmd_tx' = internal_cmd_tx
                /\ Len(ctx'.sent) = Len(ctx.sent) + 1
                /\ ctx'.handoff = "none"]_vars
    /\ [][sst.pc = "got_result" /\ sst'.pc # sst.pc
             => /\ internal_cmd_tx' = Append(internal_cmd_tx, CommitMsg)
                /\ ctx' = ctx]_vars
    /\ [][sst.pc = "got_commit" /\ sst'.pc # sst.pc
             => /\ internal_cmd_tx' = internal_cmd_tx
                /\ Len(ctx'.sent) = Len(ctx.sent) + 1
                /\ ctx'.handoff = "none"]_vars

C26_Witness ==
    /\ ctx.kind = "ValidateConnection"
    /\ ctx.dispatched
    /\ ctx.handoff = "none"
    /\ ctx.sent = <<Err("validate")>>
    /\ internal_cmd_tx = <<>>
    /\ catalog_rev = 0

(***************************************************************************)
(* Who holds the session.                                                  *)
(***************************************************************************)

(* The holders of the session: the client, before its statement is received
   and once a response has carried the session back; the sequencing flow,
   for the context it works on or for the temporary context of the
   single-statement protocol; each Command::Execute or Command::Commit
   message in the queue; a spawned task. *)
SessionHolders ==
    (IF ctx.kind = "none" THEN {<<"client", 0>>} ELSE {})
    \cup {<<"response", i>> : i \in 1..Len(ctx.sent)}
    \cup (IF ctx.handoff \in {"inbound", "routine"} THEN {<<"flow", 0>>} ELSE {})
    \cup (IF sst.pc = "inner" THEN {<<"temporary context", 0>>} ELSE {})
    \cup {<<"message", i>> : i \in {j \in 1..Len(internal_cmd_tx) :
                                       internal_cmd_tx[j].cmd \in {"Execute", "Commit"}}}
    \cup (IF ctx.handoff = "task" THEN {<<"validate_connection task", 0>>} ELSE {})
    \cup (IF sst.pc \in {"got_result", "got_commit"}
          THEN {<<"single-statement task", 0>>} ELSE {})

(* C27 as stated: the session has exactly one holder at every moment. *)
C27_Original == Cardinality(SessionHolders) = 1

(* C27: the session never has two holders, and it has exactly one for as
   long as the coordinator has not panicked; a panic of sequence_plan drops
   the context, and the session with it, before any response is sent. *)
C27_OneOwnerUnlessPanic ==
    /\ Cardinality(SessionHolders) <= 1
    /\ ~crashed => Cardinality(SessionHolders) = 1
    /\ SessionHolders = {} => crashed /\ ctx.sent = <<>> /\ "panic" \in ctx.raised

C27_Witness ==
    /\ SessionHolders = {<<"message", 1>>}
    /\ internal_cmd_tx = <<CommitMsg>>
    /\ sst.pc = "await_commit"
    /\ ~crashed

(***************************************************************************)
(* Plan::ValidateConnection.                                               *)
(***************************************************************************)

(* C28: a ValidateConnection plan that reaches the dispatcher is always
   handed to a spawned task: sequence_plan returns with nothing sent and
   nothing changed; the task then retires the context, exactly once, with
   ValidatedConnection when the validation succeeded and with the
   validation's error when it failed. *)
C28_ValidateConnectionDeferred ==
    /\ [][Sequencing("ValidateConnection")
             => /\ ctx'.handoff = "task"
                /\ ctx'.sent = <<>>
                /\ SharedState' = SharedState
                /\ internal_cmd_tx' = internal_cmd_tx
                /\ ~crashed']_vars
    /\ [][ValidateTaskActing
             => /\ ctx.kind = "ValidateConnection"
                /\ ctx.sent = <<>>
                /\ \/ ctx'.sent = <<Ok("ValidatedConnection")>> /\ "validate" \notin ctx'.raised
                   \/ ctx'.sent = <<Err("validate")>> /\ "validate" \in ctx'.raised]_vars
    /\ [](ctx.kind = "ValidateConnection" /\ ctx.dispatched => Len(ctx.sent) <= 1)
    /\ (ctx.handoff = "task") ~> (ctx.handoff = "none" /\ Len(ctx.sent) = 1)

C28_Witness ==
    /\ ctx.kind = "ValidateConnection"
    /\ ctx.dispatched
    /\ ctx.handoff = "none"
    /\ ctx.sent = <<Ok("ValidatedConnection")>>
    /\ ctx.raised = {}

(***************************************************************************)
(* Plan::AlterSource.                                                      *)
(***************************************************************************)

(* C29: an AlterSource plan that has not been purified and reaches the
   dispatcher makes the coordinator panic: no response is sent, then or
   later, and nothing is changed as it would be for PurifiedAlterSource;
   one that the gate rejects is answered with the error of the check that
   failed, and nothing panics. *)
C29_UnpurifiedAlterSourceFatal ==
    /\ [][Awaiting /\ ctx.kind = "AlterSource" /\ ctx'.handoff # "inbound"
             => /\ SharedState' = SharedState
                /\ internal_cmd_tx' = internal_cmd_tx
                /\ IF ctx'.failed_check = "none"
                   THEN /\ ctx'.dispatched
                        /\ crashed'
                        /\ ctx'.sent = <<>>
                        /\ "panic" \in ctx'.raised
                   ELSE /\ ~ctx'.dispatched
                        /\ ~crashed'
                        /\ ctx'.sent = <<Err(ctx'.failed_check)>>]_vars
    /\ [](ctx.kind = "AlterSource" /\ ctx.dispatched
             => crashed /\ ctx.sent = <<>> /\ ctx.handoff = "none")

C29_Witness ==
    /\ ctx.kind = "AlterSource"
    /\ ctx.dispatched
    /\ ctx.steps = GateOrder
    /\ crashed
    /\ ctx.sent = <<>>
    /\ catalog_rev = 0

(***************************************************************************)
(* allocate_transient_id.                                                  *)
(***************************************************************************)

(* C30: the ids that successful calls of allocate_transient_id returned are
   strictly increasing, hence pairwise distinct, and all below the counter;
   a successful call returns the value the counter had and raises the
   counter by exactly one; the counter never passes the value at which the
   call bails; and no step but such a call changes the counter. *)
C30_TransientIdsIncrease ==
    /\ [](\A i, j \in 1..Len(allocated) : i < j => allocated[i] < allocated[j])
    /\ [](\A i \in 1..Len(allocated) : allocated[i] < transient_id_counter)
    /\ [](transient_id_counter <= MaxId)
    /\ [][transient_id_counter' # transient_id_counter \/ allocated' # allocated
             => /\ allocated' = Append(allocated, transient_id_counter)
                /\ transient_id_counter' = transient_id_counter + 1
                /\ ctx.handoff = "routine"
                /\ ctx.kind \in {"Select", "ShowColumns"}]_vars
    /\ [][ctx.handoff = "routine" /\ transient_id_counter = MaxId
             /\ ctx'.sent = <<Err("id counter overflows i64")>>
             => allocated' = allocated /\ SharedState' = SharedState]_vars

C30_Witness ==
    /\ allocated = <<1, 2>>
    /\ transient_id_counter = 3
    /\ ctx.kind = "Select"
    /\ ctx.handoff = "none"

(***************************************************************************)
(* allocate_transient_id at the counter's maximum.                         *)
(***************************************************************************)

(* A routine that allocates a transient id runs to its end. *)
AllocatingRoutineEnds ==
    /\ ctx.handoff = "routine"
    /\ ctx.kind \in {"Select", "ShowColumns"}
    /\ ctx'.handoff = "none"
    /\ ctx'.sent # <<Ok("Canceled")>>

(* C31: with the counter at its maximum every call of allocate_transient_id
   fails with the overflow error, leaves the counter where it is and issues
   no id; the counter never decreases and never passes its maximum; and no
   id is issued twice. *)
C31_OverflowFailsWithoutWrapping ==
    /\ [][AllocatingRoutineEnds /\ transient_id_counter = MaxId
             => /\ ctx'.sent = <<Err("id counter overflows i64")>>
                /\ transient_id_counter' = MaxId
                /\ allocated' = allocated]_vars
    /\ [][transient_id_counter' >= transient_id_counter]_vars
    /\ [](transient_id_counter \in 1..MaxId)
    /\ [](\A i, j \in 1..Len(allocated) : allocated[i] = allocated[j] => i = j)
    /\ [](\A i \in 1..Len(allocated) : allocated[i] \in 1..(MaxId - 1))

(* The last id below the maximum was issued, and the next call failed. *)
C31_Witness ==
    /\ allocated = <<MaxId - 1>>
    /\ transient_id_counter = MaxId
    /\ ctx.kind = "Select"
    /\ ctx.sent = <<Err("id counter overflows i64")>>
    /\ nstmt = 2

(***************************************************************************)
(* What send_diffs buffers.                                                *)
(***************************************************************************)

(* Two rows buffered one before the other came in that order in the diff
   set. *)
OrderKept(buffered, updates) ==
    \A i, j \in 1..Len(buffered) :
        i < j => \E a, b \in 1..Len(updates) :
                    /\ a < b
                    /\ updates[a][1] = buffered[i][1]
                    /\ updates[b][1] = buffered[j][1]

(* C32: the rows send_diffs buffers in the WriteOp are in the relative
   order they have in the diff set handed to it, whether or not the diff
   set holds retractions. *)
C32_BufferedInDiffSetOrder ==
    (SendDiffsCalled /\ OpsAccepted) => OrderKept(Buffered.rows, dplan.updates)

(* C36: when send_diffs returns an error, the session's buffered writes
   are what they were before the call. *)
C36_ErrorLeavesNoWriteOp ==
    (SendDiffsCalled /\ ~dout.result.ok) => txn_ops = dout.ops_before

(***************************************************************************)
(* The count send_diffs answers with.                                      *)
(***************************************************************************)

(* The affected-row count of a diff set: the plain sum without a negative
   diff, the sum of the absolute net diffs of the rows with one. *)
Affected(updates) ==
    IF HasNegative(updates) THEN NetAbs(updates) ELSE SumDiffs(updates)

(* C37: without RETURNING, Updated carries the affected-row count halved
   and rounded down, Inserted and Deleted carry the count itself; an update
   that retracts one row and inserts another reports 1, one whose retraction
   and insertion cancel reports 0. *)
C37_UpdatedHalvesCount ==
    (SendDiffsCalled /\ CountResponded) =>
        LET n == dout.result.n
            a == Affected(dplan.updates)
        IN /\ dplan.kind = "Update" =>
                 /\ dout.result.val = "Updated"
                 /\ 2 * n <= a
                 /\ a <= 2 * n + 1
           /\ dplan.kind = "Insert" => dout.result.val = "Inserted" /\ n = a
           /\ dplan.kind = "Delete" => dout.result.val = "Deleted" /\ n = a
           /\ (dplan.kind = "Update"
               /\ dplan.updates = << <<(<<1>>), -1>>, <<(<<2>>), 1>> >>) => n = 1
           /\ (dplan.kind = "Update"
               /\ dplan.updates = << <<(<<1>>), -1>>, <<(<<1>>), 1>> >>) => n = 0

C37_Witness ==
    /\ SendDiffsCalled
    /\ dplan.kind = "Update"
    /\ dplan.updates = << <<(<<1>>), -1>>, <<(<<2>>), 1>> >>
    /\ dout.affected_rows = 2
    /\ dout.result = Resp(TRUE, "Updated", 1, <<>>)

(***************************************************************************)
(* The sign of the affected-row count.                                     *)
(***************************************************************************)

(* The sum of the diffs that come before the first negative one. *)
PartialSum(updates) == ScanDiffs(updates, 0).affected_rows

(* C38: the affected-row count of send_diffs is never negative, whether the
   diff set is empty, without a negative diff, or with negative diffs
   anywhere, so the conversion to an unsigned count does not abort; with a
   negative diff the count is the consolidated one alone, the sum reached
   before the negative diff being dropped. *)
C38_AffectedRowsNotNegative ==
    SendDiffsCalled =>
        /\ dout.affected_rows >= 0
        /\ ~crashed
        /\ dout.result.val # "panic"
        /\ dplan.updates = <<>> => dout.affected_rows = 0
        /\ HasNegative(dplan.updates) =>
              /\ dout.affected_rows = NetAbs(dplan.updates)
              /\ PartialSum(dplan.updates) > 0
                    => dout.affected_rows # PartialSum(dplan.updates) + NetAbs(dplan.updates)

(* Two rows came before the retraction: their sum is not in the count. *)
C38_Witness ==
    /\ SendDiffsCalled
    /\ dplan.updates = << <<(<<1>>), 2>>, <<(<<2>>), -1>> >>
    /\ PartialSum(dplan.updates) = 2
    /\ dout.affected_rows = 3
    /\ ~crashed

(***************************************************************************)
(* The allowed responses of a statement.                                   *)
(***************************************************************************)

(* C34: once sequence_plan has run on a statement, whether a check of the
   gate failed, even the first one, or the match was entered, the
   context's allowed responses are those generated from the plan's kind and
   Canceled; they are set by that run of sequence_plan and by nothing after
   it. *)
C34_AllowedResponsesFromPlanKind ==
    /\ [](Sequenced => /\ ctx.allowed = GeneratedFrom(ctx.kind) \cup {"Canceled"}
                       /\ "Canceled" \in ctx.allowed)
    /\ [][Awaiting /\ ctx'.handoff # "inbound"
             => ctx'.allowed = GeneratedFrom(ctx.kind) \cup {"Canceled"}]_vars
    /\ [][ctx'.allowed # ctx.allowed => Awaiting \/ Receiving]_vars

(* The first check of the gate failed; the allowed responses are set. *)
C34_Witness ==
    /\ ctx.kind = "Select"
    /\ ctx.failed_check = GateOrder[1]
    /\ ~ctx.dispatched
    /\ ctx.allowed = {"generated_from:Select", "Canceled"}
    /\ ctx.sent = <<Err(GateOrder[1])>>

(***************************************************************************)
(* Plan::Execute.                                                          *)
(***************************************************************************)
ExecuteMsg(name) == [cmd |-> "Execute", portal_name |-> name]

(* C35: for an Execute plan the dispatcher either posts exactly one
   Command::Execute message, with the portal's name, and the session and the
   response sender in it, and sends nothing, or retires the context with
   the error of sequence_execute and posts nothing; the latter whenever the
   statement is not prepared.  Once the message is posted the context is
   changed by nothing until the message is taken from the queue. *)
C35_ExecutePostsOneMessage ==
    /\ [][Sequencing("Execute")
             => \/ /\ internal_cmd_tx' = Append(internal_cmd_tx, ExecuteMsg(ctx.name))
                   /\ ctx.name \in prepared
                   /\ ctx.name \in portals'
                   /\ ctx'.sent = <<>>
                   /\ ctx'.handoff = "internal_cmd"
                \/ /\ internal_cmd_tx' = internal_cmd_tx
                   /\ ctx'.sent = <<Err("sequence_execute")>>
                   /\ ctx'.handoff = "none"
                   /\ portals' = portals]_vars
    /\ [][Sequencing("Execute") /\ ctx.name \notin prepared
             => internal_cmd_tx' = internal_cmd_tx /\ Len(ctx'.sent) = 1]_vars
    /\ [](ctx.handoff = "internal_cmd"
             => /\ internal_cmd_tx = <<ExecuteMsg(ctx.name)>>
                /\ SessionHolders = {<<"message", 1>>})
    /\ [][ctx.handoff = "internal_cmd" /\ ctx' # ctx
             => internal_cmd_tx' = Tail(internal_cmd_tx)]_vars

C35_Witness ==
    /\ ctx.kind = "Execute"
    /\ ctx.dispatched
    /\ ctx.handoff = "internal_cmd"
    /\ internal_cmd_tx = <<ExecuteMsg(ctx.name)>>
    /\ ctx.sent = <<>>
    /\ ctx.name \in portals

(***************************************************************************)
(* Writes are buffered until the transaction commits.                      *)
(***************************************************************************)

(* The step is a write routine answering its statement itself. *)
WriteRoutineEnds ==
    /\ ctx.handoff = "routine"
    /\ ctx.kind \in {"Insert", "ReadThenWrite"}
    /\ ctx'.handoff = "none"
    /\ ctx'.sent # <<Ok("Canceled")>>

(* The step is the end-transaction routine committing the transaction. *)
Committing ==
    /\ EndTransactionRetiring
    /\ ctx.kind = "CommitTransaction"
    /\ ctx'.sent = <<Ok("TransactionCommitted")>>

(* The step is a write statement run outside any transaction: it makes up
   a transaction of its own, which commits with it. *)
ImplicitCommitting ==
    /\ WriteRoutineEnds
    /\ txn = "Default"
    /\ ctx'.sent = <<Ok("Inserted")>>

(* C33: a write routine that succeeds inside a transaction appends exactly
   one WriteOp, bound to the plan's target relation, to the session's
   buffered ops and leaves the relation as it is; one that fails leaves
   the relation as it is too; the relation changes only in a step that
   commits, and then by exactly the buffered writes; an aborted transaction
   and a commit that fails drop the buffered writes without applying any. *)
C33_WritesBufferedUntilCommit ==
    /\ [][WriteRoutineEnds /\ txn # "Default" /\ ctx'.sent = <<Ok("Inserted")>>
             => /\ txn_ops'.type = "Writes"
                /\ Len(txn_ops'.writes) = Len(txn_ops.writes) + 1
                /\ SubSeq(txn_ops'.writes, 1, Len(txn_ops.writes)) = txn_ops.writes
                /\ txn_ops'.writes[Len(txn_ops'.writes)].id = PlanId(ctx)
                /\ relation' = relation]_vars
    /\ [][WriteRoutineEnds /\ ctx'.sent # <<Ok("Inserted")>>
             => relation' = relation]_vars
    /\ [][relation' # relation => Committing \/ ImplicitCommitting]_vars
    /\ [][Committing => relation' = relation \o txn_ops.writes /\ txn_ops' = NoOps]_vars
    /\ [][ImplicitCommitting
             => /\ Len(relation') = Len(relation) + 1
                /\ relation'[Len(relation')].id = PlanId(ctx)
                /\ txn_ops' = txn_ops]_vars
    /\ [][EndTransactionRetiring /\ ~Committing /\ txn # "Default"
             => relation' = relation /\ txn_ops' = NoOps]_vars

C33_Witness ==
    /\ ctx.kind = "ReadThenWrite"
    /\ ctx.sent = <<Ok("Inserted")>>
    /\ txn = "InTransaction"
    /\ txn_ops = [type |-> "Writes",
                  writes |-> <<[id |-> 2, rows |-> << <<(<<1>>), 1>> >>]>>]
    /\ relation = <<>>

(***************************************************************************)
(* The differential logging demux handling TraceShare events.              *)
(***************************************************************************)

(* The coordinator's and the session's variables. *)
coordinator_vars ==
    <<txn, txn_ops, prepared, portals, session_vars_set, temp_items,
      transient_id_counter, catalog_rev, internal_cmd_tx, notices, ctx, crashed,
      nstmt, dplan, dout, sst, coord, allocated, relation>>

(* The demux operator is handed a TraceShare event. *)
TraceShare(operator, diff) ==
    /\ ~differential_demux.panicked
    /\ differential_demux.handled < MaxTraceShares
    /\ differential_demux.output_sharing[operator] + diff <= MaxShare
    /\ differential_demux' =
          [HandleTraceShare(differential_demux, [operator |-> operator, diff |-> diff])
              EXCEPT !.handled = @ + 1]
    /\ UNCHANGED <<coordinator_vars, timely_demux>>

NextDifferential == \E operator \in Operators, diff \in ShareDiffs : TraceShare(operator, diff)

SpecDifferential == Init /\ [][NextDifferential]_vars

(* C39: while the demux has not panicked, its sharing map holds for each
   operator the sum of the share diffs given for it and holds no entry for
   an operator whose sum is zero; a TraceShare event gives the
   ArrangementHeapSizeOperatorDrop event for its operator exactly when it
   brings the operator's sum to zero, and the entry is gone then; and the
   handler panics exactly when the event takes the sum below zero. *)
C39_SharingHoldsRunningSum ==
    /\ [](~differential_demux.panicked =>
            \A o \in Operators :
                IF o \in DOMAIN differential_demux.sharing
                THEN /\ differential_demux.sharing[o] > 0
                     /\ differential_demux.sharing[o] = differential_demux.output_sharing[o]
                ELSE differential_demux.output_sharing[o] = 0)
    /\ [][\A o \in Operators :
            differential_demux'.output_sharing[o] # differential_demux.output_sharing[o] =>
              /\ differential_demux'.panicked <=> differential_demux'.output_sharing[o] < 0
              /\ IF differential_demux'.output_sharing[o] = 0
                 THEN /\ differential_demux'.compute_events =
                            Append(differential_demux.compute_events,
                                   ArrangementHeapSizeOperatorDrop(o))
                      /\ o \notin DOMAIN differential_demux'.sharing
                 ELSE differential_demux'.compute_events = differential_demux.compute_events
              /\ \A q \in Operators \ {o} :
                    /\ differential_demux'.output_sharing[q] = differential_demux.output_sharing[q]
                    /\ (q \in DOMAIN differential_demux'.sharing)
                          <=> (q \in DOMAIN differential_demux.sharing)]_vars

C39_Witness ==
    /\ ~differential_demux.panicked
    /\ differential_demux.compute_events =
          <<ArrangementHeapSizeOperatorDrop(1), ArrangementHeapSizeOperatorDrop(1)>>
    /\ DOMAIN differential_demux.sharing = {2}
    /\ differential_demux.sharing[2] = 2

(***************************************************************************)
(* The timely logging demux handling the events of its worker's log.       *)
(***************************************************************************)

InitTimely ==
    /\ Init
    /\ transient_id_counter = 1

(* The demux handles the next event of its worker's log. *)
Handle(after) ==
    /\ timely_demux' = after
    /\ UNCHANGED <<coordinator_vars, differential_demux>>

(* Timely announces an operator, once. *)
Operates(event) ==
    /\ event.id \notin timely_demux.announced
    /\ Handle([TimelyOperates(timely_demux, timely_demux.worker, event)
                  EXCEPT !.announced = @ \cup {event.id}])

(* Timely announces a channel, once. *)
Channels(event) ==
    /\ event.id \notin timely_demux.announced
    /\ Handle([TimelyChannels(timely_demux, timely_demux.worker, event)
                  EXCEPT !.announced = @ \cup {event.id}])

(* A Shutdown event for any operator identifier. *)
Shutdown(id) ==
    Handle(TimelyShutdown(timely_demux, timely_demux.worker, [id |-> id]))

(* The operator is announced and not shut down. *)
Live(id) == <<id, timely_demux.worker>> \in DOMAIN timely_demux.operates_data

(* The dataflow a channel was announced in. *)
DataflowOf(channel) ==
    CHOOSE f \in Dataflows : \E c \in 1..MaxChannels : ChannelsEvent(f, c).id = channel

(* The counts recorded for a channel of this worker towards or from a peer. *)
Counted(map, channel, peer) ==
    IF <<channel, timely_demux.worker>> \in DOMAIN map
    THEN map[<<channel, timely_demux.worker>>][peer + 1] ELSE 0

(* The worker sends messages on a channel to a peer, or receives messages
   on it from a peer, while the channel's dataflow runs. *)
Messages(is_send, channel, peer, length) ==
    /\ channel \in timely_demux.announced
    /\ Live(DataflowOperates(DataflowOf(channel)).id)
    /\ Counted(IF is_send THEN timely_demux.messages_sent_data
               ELSE timely_demux.messages_received_data, channel, peer) + length
          <= MaxMessages
    /\ Handle(TimelyMessages(timely_demux, timely_demux.worker,
                             [is_send |-> is_send, channel |-> channel, length |-> length,
                              source |-> IF is_send THEN timely_demux.worker ELSE peer,
                              target |-> IF is_send THEN peer ELSE timely_demux.worker]))

RECURSIVE Activations(_)
Activations(schedules) ==
    IF schedules = <<>> THEN 0 ELSE Head(schedules)[1] + Activations(Tail(schedules))

(* An operator that is announced and not shut down starts to run, or
   stops at a time not before its start: the two alternate. *)
Schedule(time_ns, id, start_stop) ==
    LET key == <<timely_demux.worker, id>>
        data == <<id, timely_demux.worker>>
    IN /\ Live(id)
       /\ IF start_stop = "Start"
          THEN /\ key \notin DOMAIN timely_demux.schedules_stash
               /\ data \in DOMAIN timely_demux.schedules_data
                     => Activations(timely_demux.schedules_data[data]) < MaxSchedules
          ELSE /\ key \in DOMAIN timely_demux.schedules_stash
               /\ time_ns >= timely_demux.schedules_stash[key]
       /\ Handle(TimelySchedule(timely_demux, timely_demux.worker, time_ns,
                                [id |-> id, start_stop |-> start_stop]))

NextTimely ==
    \/ \E event \in OperatesEvents : Operates(event)
    \/ \E event \in ChannelsEvents : Channels(event)
    \/ \E id \in OperatorIds : Shutdown(id)
    \/ \E is_send \in BOOLEAN, channel \in ChannelIds, peer \in Workers,
          length \in 1..MaxMessages :
          Messages(is_send, channel, peer, length)
    \/ \E time_ns \in 0..MaxTime, id \in OperatorIds, start_stop \in {"Start", "Stop"} :
          Schedule(time_ns, id, start_stop)

SpecTimely == InitTimely /\ [][NextTimely]_vars

(* The step is the Shutdown of an operator that was announced by event
   and not shut down before. *)
ShutsDown(event) ==
    /\ <<event.id, timely_demux.worker>> \in DOMAIN timely_demux.operates_data
    /\ <<event.id, timely_demux.worker>> \notin DOMAIN timely_demux'.operates_data

(* The channels announced in the scope of a dataflow. *)
ChannelsOf(dataflow) == {c \in ChannelsEvents : c.scope_addr[1] = dataflow}

(* C40: the Shutdown of an operator that was announced and not yet shut
   down leaves its rows of the operates and addresses outputs, its
   schedule duration and every histogram row of it summing to zero; when
   its address has length one, the channels of that dataflow, their
   addresses and their sent and received counts sum to zero as well, and
   otherwise the channel outputs are as they were; the Shutdown takes the
   operator out of operates_data, so that a second Shutdown of it, like a
   Shutdown of an operator that was never announced, gives no update and
   changes nothing. *)
C40_ShutdownRetractsWhatWasLogged ==
    /\ [][\A event \in OperatesEvents : ShutsDown(event) =>
            LET worker == timely_demux.worker
                after == timely_demux'
            IN /\ Net(after.operates, <<(<<event.id, worker>>), event.name>>) = 0
               /\ Net(after.addresses, <<event.id, worker, event.addr>>) = 0
               /\ Net(after.schedules_duration, <<event.id, worker>>) = 0
               /\ \A row \in DOMAIN after.schedules_histogram : row[1] # event.id
               /\ after.given > timely_demux.given
               /\ IF Len(event.addr) = 1
                  THEN \A c \in ChannelsOf(event.addr[1]) :
                          /\ Net(after.channels, ChannelRow(worker, c)) = 0
                          /\ Net(after.addresses, <<c.id, worker, c.scope_addr>>) = 0
                          /\ \A row \in DOMAIN after.messages_sent : row[1][1] # c.id
                          /\ \A row \in DOMAIN after.messages_received : row[1][1] # c.id
                  ELSE /\ after.channels = timely_demux.channels
                       /\ after.messages_sent = timely_demux.messages_sent
                       /\ after.messages_received = timely_demux.messages_received]_vars
    /\ [](\A id \in OperatorIds :
            LET after == TimelyShutdown(timely_demux, timely_demux.worker, [id |-> id])
            IN IF <<id, timely_demux.worker>> \in DOMAIN timely_demux.operates_data
               THEN /\ <<id, timely_demux.worker>> \notin DOMAIN after.operates_data
                    /\ TimelyShutdown(after, timely_demux.worker, [id |-> id]) = after
               ELSE after = timely_demux)

C40_Witness ==
    /\ timely_demux.announced = {DataflowOperates(1).id} \cup {c.id : c \in ChannelsOf(1)}
    /\ timely_demux.operates_data = EmptyMap
    /\ timely_demux.operates = EmptyMap
    /\ timely_demux.addresses = EmptyMap
    /\ timely_demux.channels = EmptyMap
    /\ timely_demux.messages_sent = EmptyMap
    /\ timely_demux.messages_received = EmptyMap
    /\ timely_demux.schedules_duration = EmptyMap
    /\ timely_demux.schedules_histogram = EmptyMap
    /\ timely_demux.given = 38

====
